---- MODULE Spec2Model ----
(***************************************************************************)
(* Volume-tracked liquid-transfer engine of the AdhE assay protocol        *)
(* (src/AdhE_assay_protocol.py): the volume ledger all_volumes with        *)
(* reset_well_volumes and adjust_well_volume.                              *)
(*                                                                         *)
(* Volumes are microlitres, kept as integers.  A well is a record          *)
(* [plate, row, col]: row is the 0-based index of the row letter           *)
(* (A = 0, B = 1, ...), col the 1-based column number, so the well name    *)
(* "B3" is row 1, col 3.  An exception that ends the run is recorded in    *)
(* err under the name of the Python exception class that is raised.        *)
(***************************************************************************)
EXTENDS Integers, Sequences, FiniteSets, TLC

VARIABLES
    all_volumes,    \* the ledger: plate -> (well name -> volume)
    prev_volumes,   \* the ledger when the last adjust_well_volume call started
    mid_volumes,    \* the ledger after that call's source loop (l. 696-699)
    call,           \* the last ledger call and its arguments
    err,            \* "none", or the exception that ended the run
    ncalls,         \* adjust calls made so far
    liquid,         \* plate -> (well name -> net volume the robot moved in or out)
    tips,           \* pipette -> [has_tip, current_volume, well]
    events,         \* the driver calls made so far, in order
    request,        \* the transfer call a run of the transfer engine is given
    pc,             \* "ready" before that call, "done" after it
    result          \* what the last helper function called on its own returned

vars == <<all_volumes, prev_volumes, mid_volumes, call, err, ncalls,
          liquid, tips, events, request, pc, result>>

(***************************************************************************)
(* Bounds of the model.                                                    *)
(***************************************************************************)
\* columns of the reservoir (12 on the real labware)
NumCols == 2
\* columns of the assay plate (24 on the real labware)
AssayCols == 10
\* columns of the assay plate the reagents go to, after the standard curve's
ReagentCols == 2
\* adjust calls in one run
MaxCalls == 1

(***************************************************************************)
(* Labware.  The run registers three plates in all_volumes (l. 734-737):   *)
(* the 1-row reservoir, the 8-row deep-well plate and the 16-row assay     *)
(* plate.  Nothing else is ever registered: a well of any other labware,   *)
(* here a 4-row tube rack, is a well whose plate the ledger does not know. *)
(***************************************************************************)
PlateNames == {"reservoir", "deepwell", "assay"}

\* the labware a caller can take a well from
Labware == PlateNames \cup {"tuberack"}

\* len(plate.rows())
plate_rows(plate) ==
    CASE plate = "reservoir" -> 1
      [] plate = "deepwell"  -> 8
      [] plate = "assay"     -> 16
      [] plate = "tuberack"  -> 4
      [] OTHER               -> 0

\* l. 839: the wells of the dilution series of the deep-well plate
number_serial_dilutions == 8

\* len(plate.columns()): the deep-well plate keeps the columns its dilution
\* series takes (l. 845)
plate_cols(plate) ==
    CASE plate = "deepwell" -> number_serial_dilutions
      [] plate = "assay"    -> AssayCols
      [] OTHER              -> NumCols

\* plate.wells_by_name(): the well names of a plate, as <<row, col>>
wells_by_name(plate) ==
    { <<r, c>> : r \in 0 .. (plate_rows(plate) - 1), c \in 1 .. plate_cols(plate) }

\* protocol.fixed_trash['A1']
trash == [plate |-> "trash", row |-> 0, col |-> 1]

NoWell == [plate |-> "none", row |-> 0, col |-> 0]

\* the ledger as built at l. 730-737 and by reset_well_volumes: every well 0
ZeroVolumes == [p \in PlateNames |-> [w \in wells_by_name(p) |-> 0]]

\* plate.columns_by_name()[col]: the wells of one column, top row first
columns_by_name(plate, col) ==
    [i \in 1 .. plate_rows(plate) |-> [plate |-> plate, row |-> i - 1, col |-> col]]

\* lst[start_idx::2]
EveryOther(lst, start_idx) ==
    [i \in 1 .. ((Len(lst) - start_idx + 1) \div 2) |-> lst[start_idx + 2 * i - 1]]

(***************************************************************************)
(* reset_well_volumes (l. 95-110): a fresh all-zero dictionary over        *)
(* plate.wells_by_name() for every key of all_volumes.                     *)
(***************************************************************************)
reset_well_volumes_skips_reservoir(vols) ==
    [p \in DOMAIN vols |->
        [w \in wells_by_name(p) |-> IF p = "reservoir" THEN vols[p][w] ELSE 0]]

reset_well_volumes(vols) ==
    [p \in DOMAIN vols |-> [w \in wells_by_name(p) |-> 0]]

(***************************************************************************)
(* adjust_well_volume (l. 623-705).                                        *)
(***************************************************************************)
\* l. 648-654: 0 for the trash, else len(destination_plate.rows())
destination_plate_rows(destination) ==
    IF destination.plate = "trash" THEN 0 ELSE plate_rows(destination.plate)

\* l. 659, 666, 670, 674: channels drawing from each well of source_well_list
uptake_channels_always_one(num_channels, source) ==
    1

uptake_channels(num_channels, source) ==
    IF num_channels = 1 THEN 1
    ELSE IF plate_rows(source.plate) = 1 THEN 8
    ELSE 1

\* every destination well counted for one channel
dispense_channels_always_one(num_channels, destination) ==
    1

\* l. 660, 680, 684, 688: channels dispensing into each destination well
dispense_channels_by_rows_only(num_channels, destination) ==
    IF destination_plate_rows(destination) = 1 THEN 8 ELSE 1

dispense_channels(num_channels, destination) ==
    IF num_channels = 1 THEN 1
    ELSE IF destination_plate_rows(destination) = 1 THEN 8
    ELSE 1

\* l. 661, 667, 671, 677 (source) and l. 662, 681, 685, 691 (destination):
\* whether the branches bind the well list at all
well_list_bound(num_channels, rows) ==
    num_channels = 1 \/ rows \in {1, 8, 16}

\* the wells one pipetting step at `well` touches on a plate of `rows` rows
well_list_no_fanout(num_channels, well, rows) ==
    IF num_channels = 1 \/ rows \in {1, 8} THEN <<well>>
    ELSE EveryOther(columns_by_name(well.plate, well.col), well.row)

well_list_every_row(num_channels, well, rows) ==
    IF num_channels = 1 \/ rows = 1 THEN <<well>>
    ELSE columns_by_name(well.plate, well.col)

well_list(num_channels, well, rows) ==
    IF num_channels = 1 \/ rows = 1 THEN <<well>>
    ELSE IF rows = 8 THEN columns_by_name(well.plate, well.col)
    ELSE EveryOther(columns_by_name(well.plate, well.col), well.row)

\* l. 669, 673: the source assertions.  The message of the 16-row assertion
\* names source_row, which is bound nowhere: a failing check raises NameError.
source_check(num_channels, source) ==
    IF num_channels # 8 THEN "none"
    ELSE IF plate_rows(source.plate) = 8 /\ source.row # 0 THEN "AssertionError"
    ELSE IF plate_rows(source.plate) = 16 /\ source.row \notin {0, 1} THEN "NameError"
    ELSE "none"

\* l. 683, 687: the destination assertions (destination_row is bound nowhere)
destination_check(num_channels, destination) ==
    IF num_channels # 8 THEN "none"
    ELSE IF destination_plate_rows(destination) = 8 /\ destination.row # 0
        THEN "AssertionError"
    ELSE IF destination_plate_rows(destination) = 16 /\ destination.row \notin {0, 1}
        THEN "NameError"
    ELSE "none"

\* l. 658-694: the exception raised before any ledger write, "none" if none
setup_error(source, destination, num_channels) ==
    IF num_channels \notin {1, 8} THEN "ValueError"
    ELSE IF source_check(num_channels, source) # "none"
        THEN source_check(num_channels, source)
    ELSE destination_check(num_channels, destination)

\* vols with amount added to every well of lst, in list order
RECURSIVE AddToWells(_, _, _)
AddToWells(vols, lst, amount) ==
    IF lst = <<>> THEN vols
    ELSE LET w == Head(lst)
             k == <<w.row, w.col>>
         IN  AddToWells([vols EXCEPT ![w.plate][k] = @ + amount], Tail(lst), amount)

\* l. 696-699: subtract volume from source well(s)
subtract_from_source(vols, transfer_volume, source, num_channels) ==
    AddToWells(vols,
               well_list(num_channels, source, plate_rows(source.plate)),
               - (transfer_volume * uptake_channels(num_channels, source)))

\* l. 701-705: add volume to destination well(s), unless it is the trash
add_to_destination_no_trash_test(vols, transfer_volume, destination, num_channels) ==
    AddToWells(vols,
               well_list(num_channels,
                         IF destination = trash
                             THEN [plate |-> "reservoir", row |-> 0, col |-> 1]
                             ELSE destination,
                         IF destination = trash THEN 1
                             ELSE destination_plate_rows(destination)),
               transfer_volume * dispense_channels(num_channels, destination))

add_to_destination(vols, transfer_volume, destination, num_channels) ==
    IF destination.plate = "trash" THEN vols
    ELSE AddToWells(vols,
                    well_list(num_channels, destination,
                              destination_plate_rows(destination)),
                    transfer_volume * dispense_channels(num_channels, destination))

\* the ledger looked up for the source's plate only
lookup_error_source_only(vols, source, destination) ==
    IF source.plate \notin DOMAIN vols THEN "KeyError" ELSE "none"

\* l. 643 and l. 649-653: all_volumes[str(well.parent)] for the source and,
\* unless it is the trash, for the destination
lookup_error(vols, source, destination) ==
    IF source.plate \notin DOMAIN vols THEN "KeyError"
    ELSE IF destination.plate # "trash" /\ destination.plate \notin DOMAIN vols
        THEN "KeyError"
    ELSE "none"

\* The whole call: [err, mid, vols], mid being the ledger after the source loop.
\* An unbound source_well_list fails at l. 697 before any write; an unbound
\* destination_well_list fails at l. 703, after the source loop has run.
adjust_well_volume(vols, transfer_volume, source, destination, num_channels) ==
    LET k   == lookup_error(vols, source, destination)
        e   == setup_error(source, destination, num_channels)
        mid == subtract_from_source(vols, transfer_volume, source, num_channels)
    IN  IF k # "none" THEN [err |-> k, mid |-> vols, vols |-> vols]
        ELSE IF e # "none" THEN [err |-> e, mid |-> vols, vols |-> vols]
        ELSE IF ~ well_list_bound(num_channels, plate_rows(source.plate))
            THEN [err |-> "UnboundLocalError", mid |-> vols, vols |-> vols]
        ELSE IF destination.plate # "trash"
                /\ ~ well_list_bound(num_channels, destination_plate_rows(destination))
            THEN [err |-> "UnboundLocalError", mid |-> mid, vols |-> mid]
        ELSE [err |-> "none", mid |-> mid,
              vols |-> add_to_destination(mid, transfer_volume, destination,
                                          num_channels)]

(***************************************************************************)
(* Pipettes (l. 718-719) and the driver.  A transfer threads a record      *)
(* st = [vols, liquid, tips, events, err, lists, working] through the      *)
(* driver calls in program order; once st.err is set every later step is   *)
(* skipped, as the exception leaves the function.  lists holds the list    *)
(* objects of the running custom_transfer call, working the one its        *)
(* working_destination_list names.  Heights are hundredths of a            *)
(* millimetre.                                                             *)
(***************************************************************************)
Pipettes == {"p20", "p300m"}

\* pipette.channels
channels(pipette) == IF pipette = "p300m" THEN 8 ELSE 1

\* pipette.max_volume and pipette.min_volume, in ul
max_volume(pipette) == IF pipette = "p300m" THEN 300 ELSE 20

min_volume(pipette) == IF pipette = "p300m" THEN 20 ELSE 1

\* no pipette holds a tip (l. 831-834)
NoTips ==
    [p \in Pipettes |-> [has_tip |-> FALSE, current_volume |-> 0, well |-> NoWell]]

Event(op, pipette, volume, well, z, offset) ==
    [op |-> op, pipette |-> pipette, volume |-> volume, well |-> well,
     z |-> z, offset |-> offset]

Emit(st, ev) == [st EXCEPT !.events = Append(@, ev)]

\* the exception e leaves the function, unless one already has
Raise(st, e) == IF st.err # "none" THEN st ELSE [st EXCEPT !.err = e]

\* the wells the tips of a pipette reach when it addresses `well`: all
\* channels in the one well of a 1-row plate, every row of an 8-row plate,
\* every other row of a 16-row plate
physical_wells(pipette, well) ==
    LET rows == plate_rows(well.plate)
        step == IF rows = 16 THEN 2 ELSE 1
    IN  IF channels(pipette) = 1 \/ rows = 1 THEN <<well>>
        ELSE [i \in 1 .. IF rows - well.row >= 8 * step THEN 8
                         ELSE (rows - well.row + step - 1) \div step |->
                 [plate |-> well.plate, row |-> well.row + (i - 1) * step,
                  col |-> well.col]]

\* liquid moved into (amount > 0) or out of (amount < 0) the wells under the
\* tips, amount per channel; the trash is not a tracked plate
move_liquid(liq, pipette, well, amount) ==
    IF well.plate \notin PlateNames THEN liq
    ELSE AddToWells(liq, physical_wells(pipette, well),
                    amount * (IF plate_rows(well.plate) = 1
                                  THEN channels(pipette) ELSE 1))

\* a tip is picked up by a pipette that has none
pick_up_tip(st, pipette) ==
    IF st.err # "none" THEN st
    ELSE IF st.tips[pipette].has_tip THEN Raise(st, "UnexpectedTipAttachError")
    ELSE Emit([st EXCEPT !.tips[pipette].has_tip = TRUE,
                         !.tips[pipette].current_volume = 0],
              Event("pick_up_tip", pipette, 0, NoWell, 0, "center"))

\* the tip goes to the trash with whatever it still holds
drop_tip(st, pipette) ==
    IF st.err # "none" THEN st
    ELSE IF ~ st.tips[pipette].has_tip THEN Raise(st, "NoTipAttachedError")
    ELSE Emit([st EXCEPT !.tips[pipette].has_tip = FALSE,
                         !.tips[pipette].current_volume = 0,
                         !.tips[pipette].well = trash],
              Event("drop_tip", pipette, st.tips[pipette].current_volume,
                    trash, 0, "center"))

\* aspirate(volume, location): a volume of 0 draws the free capacity
aspirate(st, pipette, volume, well, z) ==
    IF st.err # "none" THEN st
    ELSE LET cur == st.tips[pipette].current_volume
             vol == IF volume = 0 THEN max_volume(pipette) - cur ELSE volume
         IN  IF ~ st.tips[pipette].has_tip THEN Raise(st, "NoTipAttachedError")
             ELSE IF vol < 0 \/ cur + vol > max_volume(pipette)
                 THEN Raise(st, "DriverError")
             ELSE Emit([st EXCEPT !.tips[pipette].current_volume = cur + vol,
                                  !.tips[pipette].well = well,
                                  !.liquid = move_liquid(@, pipette, well, - vol)],
                       Event("aspirate", pipette, vol, well, z, "center"))

\* dispense(volume, location): never more than the tip holds
dispense(st, pipette, volume, well, z, offset) ==
    IF st.err # "none" THEN st
    ELSE LET cur == st.tips[pipette].current_volume
             vol == IF volume = 0 \/ volume > cur THEN cur ELSE volume
         IN  IF ~ st.tips[pipette].has_tip THEN Raise(st, "NoTipAttachedError")
             ELSE IF vol < 0 THEN Raise(st, "DriverError")
             ELSE Emit([st EXCEPT !.tips[pipette].current_volume = cur - vol,
                                  !.tips[pipette].well = well,
                                  !.liquid = move_liquid(@, pipette, well, vol)],
                       Event("dispense", pipette, vol, well, z, offset))

\* blow_out(location): expels what is left in the tip
blow_out(st, pipette, well, z, offset) ==
    IF st.err # "none" THEN st
    ELSE IF ~ st.tips[pipette].has_tip THEN Raise(st, "NoTipAttachedError")
    ELSE Emit([st EXCEPT !.tips[pipette].current_volume = 0,
                         !.tips[pipette].well = well,
                         !.liquid = move_liquid(@, pipette, well,
                                                st.tips[pipette].current_volume)],
              Event("blow_out", pipette, st.tips[pipette].current_volume,
                    well, z, offset))

\* touch_tip(speed = ...), at the well the pipette is in; volume holds the speed
touch_tip(st, pipette, speed) ==
    IF st.err # "none" THEN st
    ELSE IF ~ st.tips[pipette].has_tip THEN Raise(st, "NoTipAttachedError")
    ELSE Emit(st, Event("touch_tip", pipette, speed, st.tips[pipette].well,
                        0, "center"))

\* move_to(location, force_direct): op is "move_to" or "move_direct"
move_to(st, pipette, well, z, offset, direct) ==
    IF st.err # "none" THEN st
    ELSE Emit([st EXCEPT !.tips[pipette].well = well],
              Event(IF direct THEN "move_direct" ELSE "move_to", pipette, 0,
                    well, z, offset))

\* protocol.delay(seconds = ...), in hundredths of a second
delay(st, pipette, seconds) ==
    IF st.err # "none" THEN st
    ELSE Emit(st, Event("delay", pipette, seconds, st.tips[pipette].well, 0,
                        "center"))

\* adjust_well_volume, called from a transfer
adjust(st, transfer_volume, source, destination, num_channels) ==
    IF st.err # "none" THEN st
    ELSE LET r == adjust_well_volume(st.vols, transfer_volume, source,
                                     destination, num_channels)
         IN  Emit([st EXCEPT !.vols = r.vols, !.err = r.err],
                  Event("adjust", "ledger", transfer_volume, destination, 0,
                        "center") @@ [source |-> source])

(***************************************************************************)
(* offset_dispense (l. 553-621) with get_well_edge_offset (l. 197-234).    *)
(***************************************************************************)
\* well.depth, from the labware definitions (11.43 mm for the assay plate)
well_depth(plate) ==
    CASE plate = "assay"     -> 1143
      [] plate = "deepwell"  -> 4130
      [] plate = "reservoir" -> 2685
      [] OTHER               -> 4000

OffsetDirections == {"center", "right", "left", "top", "bottom"}

\* the offset needing no room above the tip
get_well_edge_offset_unchecked(st, well, height_above_bottom) == st

\* l. 209-210: the tip must stay below the top of the well
get_well_edge_offset(st, well, height_above_bottom) ==
    IF st.err # "none" THEN st
    ELSE IF ~ (well_depth(well.plate) - height_above_bottom > 0)
        THEN Raise(st, "AssertionError")
    ELSE st

\* l. 611-619: the blow-out moves; the lateral move is made at dispense_height
offset_blowout(st, pipette, well, a) ==
    LET s1 == move_to(st, pipette, well, a.dest_blowout_height, "center", FALSE)
        s2 == move_to(s1, pipette, well, a.dispense_height, a.offset_direction, TRUE)
        s3 == blow_out(s2, pipette, well, a.dispense_height, a.offset_direction)
    IN  move_to(s3, pipette, well, a.dest_blowout_height, "center", TRUE)

\* the dispense sequence releasing the liquid at the centre, before the
\* move to the side of the well
offset_dispense_before_offset_move(st, pipette, well, transfer_volume, a) ==
    LET s1 == get_well_edge_offset(st, well, a.dispense_height)
        s2 == IF s1.err = "none" /\ a.offset_direction \notin OffsetDirections
                  THEN Raise(s1, "RuntimeError") ELSE s1
        s3 == IF a.inspect_tips
                  THEN delay(move_to(s2, pipette, well,
                                     well_depth(well.plate) + 1000, "center", FALSE),
                             pipette, 300)
                  ELSE s2
        s4 == move_to(s3, pipette, well, a.dispense_height, "center", FALSE)
        s5 == dispense(s4, pipette, transfer_volume, well, a.dispense_height,
                       "center")
        s6 == move_to(s5, pipette, well, a.dispense_height, a.offset_direction, TRUE)
        s7 == move_to(s6, pipette, well, a.dispense_height, "center", TRUE)
        s8 == IF a.do_blowout THEN offset_blowout(s7, pipette, well, a) ELSE s7
    IN  IF a.do_touch_tip THEN touch_tip(s8, pipette, 20) ELSE s8

\* the dispense sequence taking any direction for the centre
offset_dispense_any_direction(st, pipette, well, transfer_volume, a) ==
    LET s2 == get_well_edge_offset(st, well, a.dispense_height)
        s3 == IF a.inspect_tips
                  THEN delay(move_to(s2, pipette, well,
                                     well_depth(well.plate) + 1000, "center", FALSE),
                             pipette, 300)
                  ELSE s2
        s4 == move_to(s3, pipette, well, a.dispense_height, "center", FALSE)
        s5 == move_to(s4, pipette, well, a.dispense_height, a.offset_direction, TRUE)
        s6 == dispense(s5, pipette, transfer_volume, well, a.dispense_height,
                       a.offset_direction)
        s7 == move_to(s6, pipette, well, a.dispense_height, "center", TRUE)
        s8 == IF a.do_blowout THEN offset_blowout(s7, pipette, well, a) ELSE s7
    IN  IF a.do_touch_tip THEN touch_tip(s8, pipette, 20) ELSE s8

\* a: [dispense_height, offset_direction, do_blowout, dest_blowout_height,
\*     do_touch_tip, inspect_tips]
offset_dispense(st, pipette, well, transfer_volume, a) ==
    LET s1 == get_well_edge_offset(st, well, a.dispense_height)
        s2 == IF s1.err = "none" /\ a.offset_direction \notin OffsetDirections
                  THEN Raise(s1, "RuntimeError") ELSE s1
        s3 == IF a.inspect_tips
                  THEN delay(move_to(s2, pipette, well,
                                     well_depth(well.plate) + 1000, "center", FALSE),
                             pipette, 300)
                  ELSE s2
        s4 == move_to(s3, pipette, well, a.dispense_height, "center", FALSE)
        s5 == move_to(s4, pipette, well, a.dispense_height, a.offset_direction, TRUE)
        s6 == dispense(s5, pipette, transfer_volume, well, a.dispense_height,
                       a.offset_direction)
        s7 == move_to(s6, pipette, well, a.dispense_height, "center", TRUE)
        s8 == IF a.do_blowout THEN offset_blowout(s7, pipette, well, a) ELSE s7
    IN  IF a.do_touch_tip THEN touch_tip(s8, pipette, 20) ELSE s8

(***************************************************************************)
(* custom_transfer (l. 411-551).  a is the record of its arguments.        *)
(***************************************************************************)
\* l. 462-468
prewet(st, a) ==
    LET s1 == aspirate(st, a.pipette, max_volume(a.pipette), a.source, 100)
        s2 == dispense(s1, a.pipette, max_volume(a.pipette), a.source, 100, "center")
        s3 == IF a.do_blowout
                  THEN blow_out(s2, a.pipette, a.source, a.source_blowout_height,
                                "center")
                  ELSE s2
    IN  touch_tip(s3, a.pipette, 60)

\* the arguments with the blow-out flag of the call, whatever the strategy
\* asks for
dispense_arguments_flag_of_call(a, do_blowout) ==
    [dispense_height |-> a.dispense_height, offset_direction |-> a.offset_direction,
     do_blowout |-> a.do_blowout, dest_blowout_height |-> 800,
     do_touch_tip |-> a.do_touch_tip, inspect_tips |-> a.inspect_tips]

\* the arguments custom_transfer hands to offset_dispense
dispense_arguments(a, do_blowout) ==
    [dispense_height |-> a.dispense_height, offset_direction |-> a.offset_direction,
     do_blowout |-> do_blowout, dest_blowout_height |-> 800,
     do_touch_tip |-> a.do_touch_tip, inspect_tips |-> a.inspect_tips]

\* the single loop booking the transfer before it is dispensed
RECURSIVE single_loop_adjust_first(_, _, _)
single_loop_adjust_first(st, a, wells) ==
    IF st.err # "none" \/ wells = <<>> THEN st
    ELSE LET well == Head(wells)
             s1 == aspirate(st, a.pipette, a.transfer_volume, a.source, 100)
             s2 == touch_tip(s1, a.pipette, 60)
             s3 == adjust(s2, a.transfer_volume, a.source, well, channels(a.pipette))
             s4 == offset_dispense(s3, a.pipette, well, a.transfer_volume,
                                   dispense_arguments(a, a.do_blowout))
         IN  single_loop_adjust_first(s4, a, Tail(wells))

\* l. 471-489: one aspirate per destination, in list order
RECURSIVE single_loop(_, _, _)
single_loop(st, a, wells) ==
    IF st.err # "none" \/ wells = <<>> THEN st
    ELSE LET well == Head(wells)
             s1 == aspirate(st, a.pipette, a.transfer_volume, a.source, 100)
             s2 == touch_tip(s1, a.pipette, 60)
             s3 == offset_dispense(s2, a.pipette, well, a.transfer_volume,
                                   dispense_arguments(a, a.do_blowout))
             s4 == adjust(s3, a.transfer_volume, a.source, well, channels(a.pipette))
         IN  single_loop(s4, a, Tail(wells))

\* no carryover drawn
carryover_volume_none(pipette) == 0

\* l. 500: pipette.max_volume * carryover, carryover = 0.1
carryover_volume(pipette) == max_volume(pipette) \div 10

\* l. 501: int((pipette.max_volume * (1 - carryover)) / transfer_volume)
max_wells_per_aspirate(pipette, transfer_volume) ==
    (max_volume(pipette) * 9) \div (10 * transfer_volume)

\* math.ceil(a / b) for a >= 0, b > 0
ceil_div(a, b) == (a + b - 1) \div b

\* the even split rounding the batch size down
even_wells_per_aspirate_rounded_down(total_wells, max_wells) ==
    IF max_wells = 0 \/ total_wells = 0 THEN 0
    ELSE total_wells \div ceil_div(total_wells, max_wells)

\* the batch size left at the capacity
even_wells_per_aspirate_not_split(total_wells, max_wells) == max_wells

\* l. 504-509: the batch size with evenly_split_transfers; 0 stands for the
\* ZeroDivisionError of either division
even_wells_per_aspirate(total_wells, max_wells) ==
    IF max_wells = 0 \/ ceil_div(total_wells, max_wells) = 0 THEN 0
    ELSE ceil_div(total_wells, ceil_div(total_wells, max_wells))

\* l. 530-547: dispense into each well of one batch, then adjust the ledger
RECURSIVE batch_loop(_, _, _)
batch_loop(st, a, wells) ==
    IF st.err # "none" \/ wells = <<>> THEN st
    ELSE LET well == Head(wells)
             s1 == offset_dispense(st, a.pipette, well, a.transfer_volume,
                                   dispense_arguments(a, FALSE))
             s2 == adjust(s1, a.transfer_volume, a.source, well, channels(a.pipette))
         IN  batch_loop(s2, a, Tail(wells))

\* working_destination_list = destination_list: one list object under two
\* names
share_destination_list(st) == [st EXCEPT !.working = "destination_list"]

\* l. 497: working_destination_list = destination_list.copy(), a list object
\* of its own
copy_destination_list(st) ==
    [st EXCEPT !.lists.copy = st.lists.destination_list, !.working = "copy"]

\* the distribute loop aspirating for a batch whatever the tip still holds
RECURSIVE distribute_loop_ignoring_tip_volume(_, _, _)
distribute_loop_ignoring_tip_volume(st, a, per_aspirate) ==
    IF st.err # "none" \/ st.lists[st.working] = <<>> THEN st
    ELSE LET working == st.lists[st.working]
             n    == IF per_aspirate < Len(working) THEN per_aspirate ELSE Len(working)
             temp == [i \in 1 .. n |-> working[Len(working) - i + 1]]
             aspirate_volume ==
                 a.transfer_volume * n + carryover_volume(a.pipette)
             s1 == aspirate([st EXCEPT !.lists[st.working] =
                                           SubSeq(@, 1, Len(@) - n)],
                            a.pipette, aspirate_volume, a.source, 100)
             s2 == IF a.do_touch_tip THEN touch_tip(s1, a.pipette, 60) ELSE s1
         IN  distribute_loop_ignoring_tip_volume(batch_loop(s2, a, temp), a,
                                                 per_aspirate)

\* l. 513-547: pop up to per_aspirate wells off the end of the list
\* working_destination_list names (st.lists[st.working], l. 516-519),
\* aspirate for them plus the carryover, dispense into each.  With
\* per_aspirate = 0 no well is ever popped: the first turn draws the
\* carryover, the second asks for 0 ul, which fills the tip, and the third
\* asks for a negative volume, which ends the call.
RECURSIVE distribute_loop(_, _, _)
distribute_loop(st, a, per_aspirate) ==
    IF st.err # "none" \/ st.lists[st.working] = <<>> THEN st
    ELSE LET working == st.lists[st.working]
             n    == IF per_aspirate < Len(working) THEN per_aspirate ELSE Len(working)
             temp == [i \in 1 .. n |-> working[Len(working) - i + 1]]
             aspirate_volume ==
                 a.transfer_volume * n + carryover_volume(a.pipette)
             s1 == aspirate([st EXCEPT !.lists[st.working] =
                                           SubSeq(@, 1, Len(@) - n)],
                            a.pipette,
                            aspirate_volume - st.tips[a.pipette].current_volume,
                            a.source, 100)
             s2 == IF a.do_touch_tip THEN touch_tip(s1, a.pipette, 60) ELSE s1
         IN  distribute_loop(batch_loop(s2, a, temp), a, per_aspirate)

\* l. 495-551
distribute(st, a) ==
    LET s0 == copy_destination_list(st)
        m == max_wells_per_aspirate(a.pipette, a.transfer_volume)
        e == even_wells_per_aspirate(Len(s0.lists[s0.working]), m)
        s1 == IF a.transfer_volume = 0 \/ (a.evenly_split_transfers /\ e = 0)
                  THEN Raise(s0, "ZeroDivisionError")
                  ELSE distribute_loop(s0, a,
                                       IF a.evenly_split_transfers THEN e ELSE m)
    IN  IF st.err # "none" THEN st
        ELSE IF a.drop_tip THEN drop_tip(s1, a.pipette) ELSE s1

\* l. 470-493
single(st, a) ==
    LET s1 == single_loop(st, a, st.lists.destination_list)
    IN  IF st.err # "none" THEN st
        ELSE IF a.drop_tip THEN drop_tip(s1, a.pipette) ELSE s1

\* the range check without its lower limit
volume_in_range_max_only(pipette, transfer_volume) ==
    transfer_volume <= max_volume(pipette)

\* l. 451
volume_in_range(pipette, transfer_volume) ==
    /\ transfer_volume <= max_volume(pipette)
    /\ transfer_volume >= min_volume(pipette)

\* l. 411-551.  In s0 the call is made: destination_list names the list
\* object the caller passes, and no copy of it exists yet.
custom_transfer(st, a) ==
    LET s0 == [st EXCEPT !.lists = [destination_list |-> a.destination_list,
                                    copy |-> <<>>],
                         !.working = "copy"]
        s1 == IF s0.tips[a.pipette].has_tip THEN s0
              ELSE pick_up_tip(s0, a.pipette)
        s2 == IF a.prewet_tip THEN prewet(s1, a) ELSE s1
    IN  IF st.err # "none" THEN st
        ELSE IF ~ volume_in_range(a.pipette, a.transfer_volume)
            THEN Raise(s0, "AssertionError")
        ELSE IF s2.err # "none" THEN s2
        ELSE IF a.transfer_type = "single" THEN single(s2, a)
        ELSE IF a.transfer_type = "distribute" THEN distribute(s2, a)
        ELSE s2

(***************************************************************************)
(* serial_dilution (l. 347-409).  a is the record of its arguments.        *)
(***************************************************************************)
\* l. 373-377 and l. 391-395: aspirate at the well, dispense at
\* dispense_height, half a second of delay
RECURSIVE mix(_, _, _, _)
mix(st, a, well, steps) ==
    IF st.err # "none" \/ steps <= 0 THEN st
    ELSE LET s1 == aspirate(st, a.pipette, a.mix_volume, well, 100)
             s2 == dispense(s1, a.pipette, a.mix_volume, well, a.dispense_height,
                            "center")
         IN  mix(delay(s2, a.pipette, 50), a, well, steps - 1)

\* l. 370-381 and l. 390-399: mix, blow out if asked, touch the tip
mix_and_touch(st, a, well) ==
    LET s1 == mix(st, a, well, a.mix_steps)
        s2 == IF a.do_blowout
                  THEN blow_out(s1, a.pipette, well, a.blowout_height, "center")
                  ELSE s1
    IN  touch_tip(s2, a.pipette, 20)

\* the dilution step booking the transfer only after the mixing
RECURSIVE dilution_loop_adjust_after_mix(_, _, _)
dilution_loop_adjust_after_mix(st, a, i) ==
    IF st.err # "none" \/ i >= Len(a.wells) THEN st
    ELSE LET s1 == aspirate(st, a.pipette, a.transfer_volume, a.wells[i], 100)
             s2 == dispense(s1, a.pipette, a.transfer_volume, a.wells[i + 1], 100,
                            "center")
             s3 == mix_and_touch(s2, a, a.wells[i + 1])
             s4 == adjust(s3, a.transfer_volume, a.wells[i], a.wells[i + 1],
                          channels(a.pipette))
             s5 == IF a.always_get_new_tip
                       THEN pick_up_tip(drop_tip(s4, a.pipette), a.pipette)
                       ELSE s4
         IN  dilution_loop_adjust_after_mix(s5, a, i + 1)

\* l. 384-403: step i moves transfer_volume from wells[i] to wells[i+1]
RECURSIVE dilution_loop(_, _, _)
dilution_loop(st, a, i) ==
    IF st.err # "none" \/ i >= Len(a.wells) THEN st
    ELSE LET s1 == aspirate(st, a.pipette, a.transfer_volume, a.wells[i], 100)
             s2 == dispense(s1, a.pipette, a.transfer_volume, a.wells[i + 1], 100,
                            "center")
             s3 == adjust(s2, a.transfer_volume, a.wells[i], a.wells[i + 1],
                          channels(a.pipette))
             s4 == mix_and_touch(s3, a, a.wells[i + 1])
             s5 == IF a.always_get_new_tip
                       THEN pick_up_tip(drop_tip(s4, a.pipette), a.pipette)
                       ELSE s4
         IN  dilution_loop(s5, a, i + 1)

\* the trailing disposal without its ledger adjustment
discard_extra_volume_unbooked(st, a) ==
    IF st.err # "none" THEN st
    ELSE IF Len(a.wells) <= 1 THEN Raise(st, "UnboundLocalError")
    ELSE drop_tip(aspirate(st, a.pipette, a.transfer_volume,
                           a.wells[Len(a.wells)], 100),
                  a.pipette)

\* the trailing disposal leaving the tip on the pipette
discard_extra_volume_keeps_tip(st, a) ==
    IF st.err # "none" THEN st
    ELSE IF Len(a.wells) <= 1 THEN Raise(st, "UnboundLocalError")
    ELSE LET last == a.wells[Len(a.wells)]
             s1 == aspirate(st, a.pipette, a.transfer_volume, last, 100)
         IN  adjust(s1, a.transfer_volume, last, trash, channels(a.pipette))

\* l. 405-409: the loop variable i names the last well; it was never bound
\* when the loop did not run
discard_extra_volume(st, a) ==
    IF st.err # "none" THEN st
    ELSE IF Len(a.wells) <= 1 THEN Raise(st, "UnboundLocalError")
    ELSE LET last == a.wells[Len(a.wells)]
             s1 == aspirate(st, a.pipette, a.transfer_volume, last, 100)
             s2 == adjust(s1, a.transfer_volume, last, trash, channels(a.pipette))
         IN  drop_tip(s2, a.pipette)

\* l. 347-409.  s1: the tip (l. 365-368); s2: the mixing of wells[0]
\* (l. 370-381), which the empty list does not have
serial_dilution(st, a) ==
    LET s1 == IF st.tips[a.pipette].has_tip THEN st
              ELSE pick_up_tip(st, a.pipette)
        s2 == IF s1.err # "none" \/ ~ a.mix_before THEN s1
              ELSE IF a.wells # <<>> THEN mix_and_touch(s1, a, a.wells[1])
              ELSE IF a.mix_steps > 0 \/ a.do_blowout THEN Raise(s1, "IndexError")
              ELSE touch_tip(s1, a.pipette, 20)
    IN  IF st.err # "none" THEN st
        ELSE discard_extra_volume(dilution_loop(s2, a, 1), a)

(***************************************************************************)
(* The ledger under direct calls: any adjust_well_volume call the          *)
(* function accepts arguments for, and reset_well_volumes.                 *)
(***************************************************************************)
\* the transfer volume of the standard-curve steps (l. 265)
TransferVolumes == {20}

\* 1 and 8 are the pipettes' channel counts; 2 is none
ChannelCounts == {1, 8, 2}

\* start rows offered on a plate: the aligned ones and the first misaligned
\* one (A on a 1-row plate; A, B on 8 rows; A, B, C on 16 rows)
start_rows(plate) ==
    CASE plate_rows(plate) = 8  -> {0, 1}
      [] plate_rows(plate) = 16 -> {0, 1, 2}
      [] OTHER                  -> {0}

SourceWells ==
    UNION { { [plate |-> p, row |-> r, col |-> c] :
                r \in start_rows(p), c \in 1 .. NumCols } : p \in Labware }

DestinationWells == SourceWells \cup {trash}

NoCall ==
    [op |-> "none", transfer_volume |-> 0, source |-> NoWell,
     destination |-> NoWell, num_channels |-> 0]

NoRequest == [op |-> "none"]

NoResult == [op |-> "none"]

Init ==
    /\ all_volumes = ZeroVolumes
    /\ prev_volumes = ZeroVolumes
    /\ mid_volumes = ZeroVolumes
    /\ call = NoCall
    /\ err = "none"
    /\ ncalls = 0
    /\ liquid = ZeroVolumes
    /\ tips = NoTips
    /\ events = <<>>
    /\ request = NoRequest
    /\ pc = "ledger"
    /\ result = NoResult

ResetWellVolumes ==
    /\ err = "none"
    /\ call.op # "reset"
    /\ all_volumes' = reset_well_volumes(all_volumes)
    /\ prev_volumes' = all_volumes'
    /\ mid_volumes' = all_volumes'
    /\ call' = [op |-> "reset", transfer_volume |-> 0, source |-> NoWell,
                destination |-> NoWell, num_channels |-> 0]
    /\ UNCHANGED <<err, ncalls, liquid, tips, events, request, pc, result>>

AdjustWellVolume ==
    /\ err = "none"
    /\ ncalls < MaxCalls
    /\ \E tv \in TransferVolumes, s \in SourceWells, d \in DestinationWells,
          n \in ChannelCounts :
          LET r == adjust_well_volume(all_volumes, tv, s, d, n)
          IN  /\ all_volumes' = r.vols
              /\ mid_volumes' = r.mid
              /\ err' = r.err
              /\ call' = [op |-> "adjust", transfer_volume |-> tv, source |-> s,
                          destination |-> d, num_channels |-> n]
    /\ prev_volumes' = all_volumes
    /\ ncalls' = ncalls + 1
    /\ UNCHANGED <<liquid, tips, events, request, pc, result>>

Next == AdjustWellVolume \/ ResetWellVolumes

Spec == Init /\ [][Next]_vars

(***************************************************************************)
(* One transfer call on a freshly reset ledger (l. 835): custom_transfer   *)
(* or serial_dilution with arguments drawn from the sets below, the        *)
(* pipette with or without a tip from the call before.  liquid counts the  *)
(* net volume the driver moved into each well since the reset.             *)
(***************************************************************************)
MaxDests == 3

\* below every minimum (0), the p20's minimum (1), the p20's maximum and the
\* p300m's minimum (20), inside the p300m's range (100), its maximum (300),
\* above every maximum (400)
RequestVolumes == {0, 1, 20, 100, 300, 400}

\* a column run of the standard curve (l. 262) and the dilution row of the
\* deepwell plate (l. 845), of which the code takes slices
column_run(plate) ==
    [i \in 1 .. MaxDests + 1 |-> [plate |-> plate, row |-> i - 1, col |-> 1]]

row_run(plate) ==
    [i \in 1 .. MaxDests + 1 |-> [plate |-> plate, row |-> 0, col |-> i]]

WellRuns == {column_run("assay"), row_run("deepwell")}

\* l. 320-325: the buffer wells of the start wells A1 .. An: row B of their
\* columns, then row A
buffer_wells(n) ==
    [i \in 1 .. 2 * n |->
        [plate |-> "assay", row |-> IF i <= n THEN 1 ELSE 0,
         col |-> ((i - 1) % n) + 1]]

BufferWellLists == { buffer_wells(n) : n \in 1 .. (MaxDests + 1) \div 2 }

DestinationLists ==
    { SubSeq(b, 1, k) : b \in WellRuns, k \in 0 .. MaxDests }
    \cup { b \in BufferWellLists : Len(b) <= MaxDests }

DilutionSeries == { SubSeq(b, 1, k) : b \in WellRuns, k \in 0 .. MaxDests + 1 }

TransferSources ==
    { [plate |-> "reservoir", row |-> 0, col |-> 1],
      [plate |-> "deepwell", row |-> 0, col |-> 1] }

\* 2 mm (l. 266), 11.43 mm: the depth of an assay well, and 12 mm (l. 871):
\* above the top of an assay well
DispenseHeights == {200, 1143, 1200}

\* the calls of one pipette for the volumes and strategies given, with
\* offset_direction one of the five offset_dispense knows (l. 580-594) or
\* one it does not
transfer_requests(pipette, volumes, heights, directions, strategies, flags) ==
    [op : {"custom_transfer"}, has_tip : BOOLEAN, pipette : {pipette},
     transfer_volume : volumes, source : TransferSources,
     destination_list : DestinationLists, source_blowout_height : {2500},
     dispense_height : heights, offset_direction : directions,
     prewet_tip : BOOLEAN, drop_tip : BOOLEAN, do_blowout : flags,
     do_touch_tip : BOOLEAN, transfer_type : strategies,
     inspect_tips : flags, evenly_split_transfers : flags]

\* every call with a volume of the pipette's range (the single strategy
\* never reads evenly_split_transfers, left at its default), and the calls
\* with a volume outside it: these end at l. 451 whatever the height, the
\* direction, the blow-out and the inspection asked for
CustomTransferRequests ==
    UNION { { r \in transfer_requests(
                       p,
                       { v \in RequestVolumes :
                           v >= min_volume(p) /\ v <= max_volume(p) },
                       DispenseHeights, OffsetDirections \cup {"up"},
                       {"single", "distribute"}, BOOLEAN) :
                r.transfer_type = "single" => ~ r.evenly_split_transfers }
            \cup transfer_requests(
                     p,
                     { v \in RequestVolumes :
                         v < min_volume(p) \/ v > max_volume(p) },
                     {200}, {"center"}, {"single", "distribute"}, {FALSE}) :
            p \in Pipettes }

SerialDilutionRequests ==
    [op : {"serial_dilution"}, has_tip : BOOLEAN, pipette : Pipettes,
     transfer_volume : {20}, mix_volume : {10, 20}, wells : DilutionSeries,
     mix_steps : {0, 2}, dispense_height : {400}, blowout_height : {400},
     mix_before : BOOLEAN, do_blowout : BOOLEAN, always_get_new_tip : BOOLEAN]

\* the state a call starts in
start ==
    [vols |-> all_volumes, liquid |-> liquid, tips |-> tips, events |-> events,
     err |-> err, lists |-> [destination_list |-> <<>>, copy |-> <<>>],
     working |-> "copy"]

InitTransfer ==
    /\ all_volumes = ZeroVolumes
    /\ prev_volumes = ZeroVolumes
    /\ mid_volumes = ZeroVolumes
    /\ call = NoCall
    /\ err = "none"
    /\ ncalls = 0
    /\ liquid = ZeroVolumes
    /\ events = <<>>
    /\ request \in CustomTransferRequests \cup SerialDilutionRequests
    /\ tips = [NoTips EXCEPT ![request.pipette].has_tip = request.has_tip]
    /\ pc = "ready"
    /\ result = NoResult

Finish(st) ==
    /\ all_volumes' = st.vols
    /\ liquid' = st.liquid
    /\ tips' = st.tips
    /\ events' = st.events
    /\ err' = st.err
    /\ pc' = "done"
    /\ UNCHANGED <<prev_volumes, mid_volumes, call, ncalls, result>>

\* the call returns: the caller's list is the object destination_list names,
\* as the call left it
CustomTransfer ==
    /\ pc = "ready"
    /\ request.op = "custom_transfer"
    /\ \E st \in {custom_transfer(start, request)} :
          /\ Finish(st)
          /\ request' = [request EXCEPT
                             !.destination_list = st.lists.destination_list]

SerialDilution ==
    /\ pc = "ready"
    /\ request.op = "serial_dilution"
    /\ Finish(serial_dilution(start, request))
    /\ UNCHANGED request

NextTransfer == CustomTransfer \/ SerialDilution

SpecTransfer == InitTransfer /\ [][NextTransfer]_vars

(***************************************************************************)
(* One distribute call over a long destination list (l. 987-1001: the      *)
(* assay transfers distribute into up to 18 destinations per call).        *)
(***************************************************************************)
MaxTotal == 18

\* per-aspirate capacities 18, 9, 3, 0 on the p20 and 13, 6, 2, 0 on the p300m
BatchVolumes == {1, 2, 5, 20, 40, 100, 300}

\* n destinations on rows B and A of the assay plate, column after column
destination_locations(n) ==
    [i \in 1 .. n |->
        [plate |-> "assay", row |-> i % 2, col |-> 1 + ((i - 1) \div 2)]]

BatchingRequests ==
    [op : {"custom_transfer"}, has_tip : BOOLEAN, pipette : Pipettes,
     transfer_volume : BatchVolumes,
     source : {[plate |-> "reservoir", row |-> 0, col |-> 1]},
     destination_list : { destination_locations(n) : n \in 0 .. MaxTotal },
     source_blowout_height : {2500}, dispense_height : {200},
     offset_direction : {"left"}, prewet_tip : BOOLEAN, drop_tip : BOOLEAN,
     do_blowout : {FALSE}, do_touch_tip : BOOLEAN, transfer_type : {"distribute"},
     inspect_tips : {FALSE}, evenly_split_transfers : BOOLEAN]

InitBatching ==
    /\ all_volumes = ZeroVolumes
    /\ prev_volumes = ZeroVolumes
    /\ mid_volumes = ZeroVolumes
    /\ call = NoCall
    /\ err = "none"
    /\ ncalls = 0
    /\ liquid = ZeroVolumes
    /\ events = <<>>
    /\ request \in BatchingRequests
    /\ tips = [NoTips EXCEPT ![request.pipette].has_tip = request.has_tip]
    /\ pc = "ready"
    /\ result = NoResult

NextBatching == CustomTransfer

SpecBatching == InitBatching /\ [][NextBatching]_vars

(***************************************************************************)
(* The well-name helpers (l. 138-172).  A well name is the sequence of the *)
(* code points of its characters, so that ord and chr are the identity on  *)
(* a character and parsing and printing work on the text itself.           *)
(***************************************************************************)
MaxNameLen == 3

MaxCol == 23

\* the characters names are drawn from: - 0 1 2 @ A P b
NameCharacters == {45, 48, 49, 50, 64, 65, 80, 98}

RECURSIVE SequencesUpTo(_, _)
SequencesUpTo(chars, n) ==
    IF n = 0 THEN {<<>>}
    ELSE LET shorter == SequencesUpTo(chars, n - 1)
         IN  shorter \cup { Append(s, c) : s \in shorter, c \in chars }

WellNames == SequencesUpTo(NameCharacters, MaxNameLen)

\* str.upper() read as the identity
upper_unchanged(c) == c

\* str.upper() on one character of the ASCII range
upper(c) == IF c >= 97 /\ c <= 122 THEN c - 32 ELSE c

IsDigit(c) == c >= 48 /\ c <= 57

IsDigits(s) == s # <<>> /\ \A i \in 1 .. Len(s) : IsDigit(s[i])

\* the number a run of decimal digits denotes
RECURSIVE digits_value(_)
digits_value(s) ==
    IF s = <<>> THEN 0
    ELSE 10 * digits_value(SubSeq(s, 1, Len(s) - 1)) + (s[Len(s)] - 48)

\* int(text): an optional sign and decimal digits; anything else among the
\* characters above is a ValueError
int(s) ==
    IF IsDigits(s) THEN [err |-> "none", value |-> digits_value(s)]
    ELSE IF s # <<>> /\ s[1] = 45 /\ IsDigits(Tail(s))
        THEN [err |-> "none", value |-> - digits_value(Tail(s))]
    ELSE [err |-> "ValueError", value |-> 0]

\* str(number)
RECURSIVE str(_)
str(n) ==
    IF n < 0 THEN <<45>> \o str(- n)
    ELSE IF n < 10 THEN <<48 + n>>
    ELSE str(n \div 10) \o <<48 + (n % 10)>>

\* l. 138-146; ord of the empty string is a TypeError
indices_from_well_name(well_name) ==
    IF well_name = <<>> THEN [err |-> "TypeError", row |-> 0, col |-> 0]
    ELSE LET row_idx == upper(well_name[1]) - 65
             number  == int(Tail(well_name))
         IN  IF number.err # "none" THEN [err |-> number.err, row |-> 0, col |-> 0]
             ELSE [err |-> "none", row |-> row_idx, col |-> number.value - 1]

\* l. 159-165; chr of a negative number is a ValueError
well_name_from_indices(row, col) ==
    IF row + 65 < 0 THEN [err |-> "ValueError", name |-> <<>>]
    ELSE [err |-> "none", name |-> <<row + 65>> \o str(col + 1)]

\* l. 167-172
offset_well(well_name, col_offset, row_offset) ==
    LET idx == indices_from_well_name(well_name)
    IN  IF idx.err # "none" THEN [err |-> idx.err, name |-> <<>>]
        ELSE well_name_from_indices(idx.row + row_offset, idx.col + col_offset)

\* the row letters A..Z
RowIndices == 0 .. 25

\* offset_well is called with the dilution level less one (l. 816)
NameRequests ==
    [op : {"indices_from_well_name"}, well_name : WellNames]
    \cup [op : {"offset_well"}, well_name : WellNames, col_offset : {0, 1},
          row_offset : {0}]
    \cup [op : {"well_name_from_indices"}, row : RowIndices, col : 0 .. MaxCol]

InitNames ==
    /\ all_volumes = ZeroVolumes
    /\ prev_volumes = ZeroVolumes
    /\ mid_volumes = ZeroVolumes
    /\ call = NoCall
    /\ err = "none"
    /\ ncalls = 0
    /\ liquid = ZeroVolumes
    /\ tips = NoTips
    /\ events = <<>>
    /\ request \in NameRequests
    /\ pc = "ready"
    /\ result = NoResult

Return(r) ==
    /\ result' = r
    /\ err' = r.err
    /\ pc' = "done"
    /\ UNCHANGED <<all_volumes, prev_volumes, mid_volumes, call, ncalls, liquid,
                   tips, events, request>>

IndicesFromWellName ==
    /\ pc = "ready"
    /\ request.op = "indices_from_well_name"
    /\ Return(indices_from_well_name(request.well_name))

WellNameFromIndices ==
    /\ pc = "ready"
    /\ request.op = "well_name_from_indices"
    /\ Return(well_name_from_indices(request.row, request.col))

OffsetWell ==
    /\ pc = "ready"
    /\ request.op = "offset_well"
    /\ Return(offset_well(request.well_name, request.col_offset,
                          request.row_offset))

NextNames == IndicesFromWellName \/ WellNameFromIndices \/ OffsetWell

SpecNames == InitNames /\ [][NextNames]_vars

(***************************************************************************)
(* The protocol run (l. 836-1089) in its phases: the dilutions of the      *)
(* deepwell plate, the standard curves, the reagent additions and the      *)
(* start reagents, with an operator pause before each of the last two.     *)
(* What the spreadsheet supplies is read where the code queries it: the    *)
(* start wells and size of the standard curve, then the component table    *)
(* and the levels of every component with their volume groups.  events     *)
(* holds the commands of the whole run.                                    *)
(***************************************************************************)
MaxLevels == 2

\* l. 174-195: the height of the liquid in hundredths of a millimetre
\* (11.43 mm for 112 ul, 0.8 mm on top, at least 1 mm) and whether the
\* warning of l. 188-189 is logged
get_384_well_dispense_height(current_volume, volume_to_add) ==
    LET total  == current_volume + volume_to_add
        height == (total * 1143) \div 112 + 80
    IN  [warning |-> total > 100,
         height  |-> IF height < 100 THEN 100 ELSE height]

\* the arguments custom_transfer takes by default (l. 415-426)
transfer_defaults ==
    [op |-> "custom_transfer", source_blowout_height |-> 2500,
     dispense_height |-> 100, offset_direction |-> "center", prewet_tip |-> TRUE,
     drop_tip |-> TRUE, do_blowout |-> TRUE, do_touch_tip |-> TRUE,
     transfer_type |-> "single", inspect_tips |-> FALSE,
     evenly_split_transfers |-> FALSE]

\* l. 979-981: the tracked volume of the first well of a volume group
first_well_volume(st, group) ==
    st.vols[group.destination_locations[1].plate]
           [<<group.destination_locations[1].row, group.destination_locations[1].col>>]

\* l. 982: the height for the group, from the volume its first well holds
group_dispense_height(st, group) ==
    get_384_well_dispense_height(first_well_volume(st, group), 0)

\* l. 188-189: the warning is logged and the run goes on
log_volume_warning(st, group) ==
    IF group_dispense_height(st, group).warning
        THEN Emit(st, Event("warning", "p300m", first_well_volume(st, group),
                            group.destination_locations[1],
                            group_dispense_height(st, group).height, "center"))
        ELSE st

\* l. 987-1001: the arguments of the transfer of one volume group
group_transfer(source, group, height) ==
    [pipette |-> "p300m", transfer_volume |-> group.volume, source |-> source,
     destination_list |-> group.destination_locations, dispense_height |-> height,
     offset_direction |-> "left", prewet_tip |-> FALSE, drop_tip |-> FALSE,
     do_blowout |-> FALSE, do_touch_tip |-> FALSE, transfer_type |-> "distribute",
     evenly_split_transfers |-> TRUE] @@ transfer_defaults

\* l. 973-1001: one volume group of a level, into destination_locations
add_volume_group(st, source, group) ==
    IF st.err # "none" THEN st
    ELSE custom_transfer(log_volume_warning(st, group),
             group_transfer(source, group, group_dispense_height(st, group).height))

RECURSIVE add_volume_groups(_, _, _)
add_volume_groups(st, source, groups) ==
    IF st.err # "none" \/ groups = <<>> THEN st
    ELSE add_volume_groups(add_volume_group(st, source, Head(groups)), source,
                           Tail(groups))

\* l. 1002-1004: the tip of the level is dropped if one is attached
drop_level_tip(st) ==
    IF st.err = "none" /\ st.tips["p300m"].has_tip THEN drop_tip(st, "p300m")
    ELSE st

\* the level keeping its tip for the next level
add_level_keeps_tip(st, level) ==
    add_volume_groups(pick_up_tip(st, "p300m"), level.source, level.groups)

\* l. 947-1004: a new tip for the level, its volume groups from the largest
\* volume down, the tip dropped
add_level(st, level) ==
    drop_level_tip(
        add_volume_groups(pick_up_tip(st, "p300m"), level.source, level.groups))

\* l. 941-1004 and l. 1025-1080
RECURSIVE add_levels(_, _)
add_levels(st, levels) ==
    IF st.err # "none" \/ levels = <<>> THEN st
    ELSE add_levels(add_level(st, Head(levels)), Tail(levels))

\* l. 845: the first number_serial_dilutions wells of row A of the deepwell
\* plate
serial_dilution_wells ==
    [i \in 1 .. number_serial_dilutions |->
        [plate |-> "deepwell", row |-> 0, col |-> i]]

\* l. 841: the volume of buffer for each well of the series
buffer_volume == 300

\* l. 844: reservoir_plate.wells()[10:12], the last two wells of the
\* reservoir
source_wells ==
    <<[plate |-> "reservoir", row |-> 0, col |-> IF NumCols > 1 THEN NumCols - 1
                                                   ELSE NumCols],
      [plate |-> "reservoir", row |-> 0, col |-> NumCols]>>

\* the source well kept for the whole series
next_source_needed_never(aspirates_per_well) == FALSE

\* l. 843, 850: aspirates_per_well >= max_aspirates_per_well - 1 with
\* max_aspirates_per_well = 10000 / (transfer_volume * number_serial_dilutions)
next_source_needed(aspirates_per_well) ==
    (aspirates_per_well + 1) * buffer_volume * number_serial_dilutions >= 10000

\* l. 854-862: the transfer of buffer into well j of the series
buffer_transfer(j, source_index) ==
    [pipette |-> "p300m", transfer_volume |-> buffer_volume,
     source |-> source_wells[source_index],
     destination_list |-> <<serial_dilution_wells[j]>>,
     drop_tip |-> FALSE, prewet_tip |-> FALSE, do_blowout |-> FALSE,
     evenly_split_transfers |-> TRUE] @@ transfer_defaults

\* l. 846-863: buffer into every well but the first; source_index is the
\* position of the iterator over source_wells, whose next() past the last
\* well raises StopIteration
RECURSIVE add_buffer(_, _, _, _)
add_buffer(st, j, source_index, aspirates_per_well) ==
    IF st.err # "none" \/ j > Len(serial_dilution_wells) THEN st
    ELSE IF ~ next_source_needed(aspirates_per_well)
        THEN add_buffer(custom_transfer(st, buffer_transfer(j, source_index)),
                        j + 1, source_index, aspirates_per_well + 1)
    ELSE IF source_index + 1 > Len(source_wells) THEN Raise(st, "StopIteration")
    ELSE add_buffer(custom_transfer(st, buffer_transfer(j, source_index + 1)),
                    j + 1, source_index + 1, 1)

\* l. 831: a tip left on the pipette is dropped
drop_attached_tip(st, pipette) ==
    IF st.tips[pipette].has_tip THEN drop_tip(st, pipette) ELSE st

\* l. 835: the ledger starts from the volumes of the deck
reset_ledger(st) == [st EXCEPT !.vols = reset_well_volumes(@)]

\* l. 866-876: the dilution series of the deepwell plate
deepwell_dilution ==
    [op |-> "serial_dilution", pipette |-> "p300m", transfer_volume |-> 300,
     mix_volume |-> 200, wells |-> serial_dilution_wells, mix_steps |-> 10,
     dispense_height |-> 1200, blowout_height |-> 2000,
     mix_before |-> TRUE, do_blowout |-> FALSE, always_get_new_tip |-> TRUE]

\* l. 836-876
prepare_dilutions(st) ==
    serial_dilution(add_buffer(reset_ledger(drop_attached_tip(st, "p300m")), 2, 1, 0),
                    deepwell_dilution)

\* l. 262: the wells of the column of start_well from its row down
stdcrv_wells(start_well, dilutions, blanks) ==
    [i \in 1 .. (IF start_well.row + dilutions + blanks <= plate_rows("assay")
                     THEN dilutions + blanks
                     ELSE plate_rows("assay") - start_well.row) |->
        [plate |-> "assay", row |-> start_well.row + i - 1, col |-> start_well.col]]

\* the arguments the transfers of the standard curve share (l. 264-310)
p20_transfer ==
    [pipette |-> "p20", transfer_volume |-> 20, dispense_height |-> 200,
     offset_direction |-> "left", do_blowout |-> FALSE] @@ transfer_defaults

\* l. 264-278: buffer into every well of the curve but the first
curve_buffer_transfer(buffer, wells) ==
    [source |-> buffer, destination_list |-> Tail(wells), drop_tip |-> TRUE]
        @@ p20_transfer

\* l. 280-296: the component into the start well
first_component_transfer(component, start_well) ==
    [source |-> component, destination_list |-> <<start_well>>,
     drop_tip |-> FALSE] @@ p20_transfer

\* l. 298-310: the component into the well below the start well
second_component_transfer(component, start_well) ==
    [source |-> component,
     destination_list |-> <<[plate |-> "assay", row |-> start_well.row + 1,
                             col |-> start_well.col]>>,
     dispense_height |-> 400, drop_tip |-> FALSE, prewet_tip |-> FALSE]
        @@ p20_transfer

\* l. 298-310: assay_plate.rows()[stdcrv_rowidx+1] fails for a start well in
\* the last row, before the transfer is called
second_component(st, component, start_well) ==
    IF st.err # "none" THEN st
    ELSE IF start_well.row + 1 >= plate_rows("assay") THEN Raise(st, "IndexError")
    ELSE custom_transfer(st, second_component_transfer(component, start_well))

\* l. 312-317: the dilution down the column, wells[1:dilutions]
curve_dilution(wells, dilutions) ==
    [op |-> "serial_dilution", pipette |-> "p20", transfer_volume |-> 20,
     mix_volume |-> 20,
     wells |-> SubSeq(wells, 2, IF dilutions < Len(wells) THEN dilutions
                                ELSE Len(wells)),
     mix_steps |-> 5, dispense_height |-> 400, blowout_height |-> 400,
     mix_before |-> TRUE, do_blowout |-> FALSE, always_get_new_tip |-> FALSE]

\* l. 255-317: the standard curve of one start well
std_curve_column(st, component, buffer, start_well, dilutions, blanks) ==
    serial_dilution(
        second_component(
            custom_transfer(
                custom_transfer(st,
                    curve_buffer_transfer(buffer,
                        stdcrv_wells(start_well, dilutions, blanks))),
                first_component_transfer(component, start_well)),
            component, start_well),
        curve_dilution(stdcrv_wells(start_well, dilutions, blanks), dilutions))

RECURSIVE std_curve_columns(_, _, _, _, _, _)
std_curve_columns(st, component, buffer, start_wells, dilutions, blanks) ==
    IF st.err # "none" \/ start_wells = <<>> THEN st
    ELSE std_curve_columns(
             std_curve_column(st, component, buffer, Head(start_wells), dilutions,
                              blanks),
             component, buffer, Tail(start_wells), dilutions, blanks)

\* l. 319-325: row B, then row A, of the column of every start well
buffer_well_locations(start_wells) ==
    [i \in 1 .. 2 * Len(start_wells) |->
        [plate |-> "assay",
         row |-> IF i <= Len(start_wells) THEN 1 ELSE 0,
         col |-> start_wells[((i - 1) % Len(start_wells)) + 1].col]]

\* l. 323-345: 40 ul of buffer into rows A and B of the curve's columns
fill_buffer_wells(st, buffer, start_wells) ==
    IF st.err # "none" THEN st
    ELSE IF \E i \in 1 .. Len(start_wells) : start_wells[i].row # 0
        THEN Raise(st, "AssertionError")
    ELSE custom_transfer(st,
             [pipette |-> "p300m", transfer_volume |-> 40, source |-> buffer,
              destination_list |-> buffer_well_locations(start_wells),
              dispense_height |-> 600, offset_direction |-> "right",
              prewet_tip |-> TRUE, do_touch_tip |-> FALSE, do_blowout |-> FALSE,
              transfer_type |-> "distribute", drop_tip |-> TRUE,
              evenly_split_transfers |-> TRUE] @@ transfer_defaults)

\* l. 236-345
p20_std_curve(st, component, buffer, start_wells, dilutions, blanks) ==
    IF st.err # "none" THEN st
    ELSE IF ~ (dilutions > 1) THEN Raise(st, "AssertionError")
    ELSE fill_buffer_wells(
             std_curve_columns(st, component, buffer, start_wells, dilutions,
                               blanks),
             buffer, start_wells)

\* the wells of the reagents: rows A and B (l. 948-949) of the ReagentCols
\* columns after the standard curve's, sorted by column (l. 949, 976)
ab_wells ==
    [i \in 1 .. 2 * ReagentCols |->
        [plate |-> "assay", row |-> (i - 1) % 2, col |-> 1 + ((i + 1) \div 2)]]

\* the wells of one of these rows
row_wells(row) ==
    [i \in 1 .. ReagentCols |-> [plate |-> "assay", row |-> row, col |-> 1 + i]]

\* the well the levels of the buffer are drawn from
ReagentSources ==
    { [plate |-> "reservoir", row |-> 0, col |-> 1] }

\* a level with one volume for every well, or with a larger volume for row A
\* and a smaller one for row B.  51 ul twice is over the 100 ul of the
\* warning, 60 ul twice over the depth of the well; the tip holds one
\* portion of 140 ul at a time, so that row A takes one batch for every
\* column
Levels ==
    { [source |-> s,
       groups |-> <<[volume |-> v, destination_locations |-> ab_wells]>>] :
         s \in ReagentSources, v \in {51, 60} }
    \cup
    { [source |-> s,
       groups |-> <<[volume |-> 140, destination_locations |-> row_wells(0)],
                    [volume |-> 20, destination_locations |-> row_wells(1)]>>] :
         s \in ReagentSources }

RECURSIVE LevelLists(_)
LevelLists(n) ==
    IF n = 0 THEN {<<>>}
    ELSE LET shorter == LevelLists(n - 1)
         IN  shorter \cup { Append(l, x) : l \in { y \in shorter : Len(y) = n - 1 },
                                           x \in Levels }

\* an enzyme of 20 ul for every well, or none
StartLevels ==
    { <<>>,
      <<[source |-> [plate |-> "reservoir", row |-> 0, col |-> NumCols],
         groups |-> <<[volume |-> 20, destination_locations |-> ab_wells]>>]>> }

\* the components of the source_well table
Components == {"buffer", "enzyme"}

\* the rows of the source_well table in their order of addition, a row with
\* its component, its pipette and whether it is marked a start component
SourceWellTables ==
    [1 .. 2 -> [component : Components, pipette : Pipettes,
                start_component : BOOLEAN]]

\* l. 920-924 and 944-945: the levels of the wells of every component, from
\* the highest level down; a component no well uses has none
GroupedLevels ==
    { [c \in Components |-> IF c = "buffer" THEN b ELSE e] :
        b \in LevelLists(MaxLevels), e \in StartLevels }

\* l. 895-907: one standard curve, in column 1.  compound is the compound of
\* its start well (l. 903) and component the source of that compound
\* (l. 904); buffer_compound is the compound of the start well's C1 row,
\* the assay buffer, and buffer its source (l. 907), the well the levels of
\* the buffer are drawn from
CurvePlans ==
    [compound : {"NADH"},
     component : {[plate |-> "deepwell", row |-> 0, col |-> 1]},
     buffer_compound : {"buffer"},
     buffer : ReagentSources,
     start_wells : { <<[plate |-> "assay", row |-> 0, col |-> 1]>> },
     dilutions : {2, 3}, blanks : {1, 2}]

\* l. 918-924: the component table and the wells of the components
ComponentPlans == [source_well : SourceWellTables, levels : GroupedLevels]

\* l. 918
assay_start_components(source_well) ==
    { source_well[i].component :
        i \in { k \in DOMAIN source_well : source_well[k].start_component } }

\* the rows of the p300m, whatever their start mark
RECURSIVE component_query_all_rows(_, _, _)
component_query_all_rows(rows, starts, is_start) ==
    IF rows = <<>> THEN <<>>
    ELSE IF Head(rows).pipette = "p300m"
        THEN <<Head(rows).component>>
                 \o component_query_all_rows(Tail(rows), starts, is_start)
    ELSE component_query_all_rows(Tail(rows), starts, is_start)

\* l. 934-939 and l. 1018-1023: the components of the rows of the p300m that
\* are (is_start) or are not (~ is_start) among the start components, in the
\* order of addition
RECURSIVE component_query(_, _, _)
component_query(rows, starts, is_start) ==
    IF rows = <<>> THEN <<>>
    ELSE IF Head(rows).pipette = "p300m" /\ ((Head(rows).component \in starts) <=> is_start)
        THEN <<Head(rows).component>> \o component_query(Tail(rows), starts, is_start)
    ELSE component_query(Tail(rows), starts, is_start)

p300m_component_list(source_well, is_start) ==
    component_query(source_well, assay_start_components(source_well), is_start)

\* l. 85-93: two delays of half a second for every blink
RECURSIVE blink_rail_lights(_, _)
blink_rail_lights(st, num_blinks) ==
    IF st.err # "none" \/ num_blinks = 0 THEN st
    ELSE blink_rail_lights(
             Emit(Emit(st, Event("delay", "none", 50, NoWell, 0, "center")),
                  Event("delay", "none", 50, NoWell, 0, "center")),
             num_blinks - 1)

\* l. 929 and l. 1009: protocol.pause
pause(st) ==
    IF st.err # "none" THEN st
    ELSE Emit(st, Event("pause", "none", 0, NoWell, 0, "center"))

\* l. 1012: the block heated to `celsius` before the run goes on
set_temperature(st, celsius) ==
    IF st.err # "none" THEN st
    ELSE Emit(st, Event("set_temperature", "none", celsius, NoWell, 0, "center"))

\* l. 942 and l. 1026: logger.info(f'Loading component {component}')
loading(component) ==
    Event("loading", "p300m", 0, NoWell, 0, "center") @@ [component |-> component]

\* l. 909: logger.info(f'Preparing standard curve of component {compound} ...')
preparing(compound) ==
    Event("preparing", "p20", 0, NoWell, 0, "center") @@ [component |-> compound]

\* l. 941-1004 and l. 1025-1080: every component of the list with the levels
\* of its wells, if it has any (l. 943, l. 1027)
RECURSIVE add_components(_, _, _)
add_components(st, components, grouped) ==
    IF st.err # "none" \/ components = <<>> THEN st
    ELSE add_components(add_levels(Emit(st, loading(Head(components))),
                                   grouped[Head(components)]),
                        Tail(components), grouped)

InitRun ==
    /\ all_volumes = ZeroVolumes
    /\ prev_volumes = ZeroVolumes
    /\ mid_volumes = ZeroVolumes
    /\ call = NoCall
    /\ err = "none"
    /\ ncalls = 0
    /\ liquid = ZeroVolumes
    /\ tips = NoTips
    /\ events = <<>>
    /\ request = [op |-> "run"]
    /\ pc = "start"
    /\ result = NoResult

Phase(st, next, failed) ==
    /\ all_volumes' = st.vols
    /\ liquid' = st.liquid
    /\ tips' = st.tips
    /\ events' = st.events
    /\ err' = st.err
    /\ pc' = IF st.err = "none" THEN next ELSE failed
    /\ UNCHANGED <<prev_volumes, mid_volumes, call, ncalls, result>>

\* l. 836-876
PrepareDilutions ==
    /\ pc = "start"
    /\ Phase(prepare_dilutions(start), "dilutions_made", "failed_dilutions")
    /\ UNCHANGED request

\* l. 889-912: the standard curve the well table asks for
StandardCurves ==
    /\ pc = "dilutions_made"
    /\ \E plan \in CurvePlans :
          /\ request' = plan @@ request
          /\ Phase(p20_std_curve(Emit(start, preparing(plan.compound)),
                                 plan.component, plan.buffer, plan.start_wells,
                                 plan.dilutions, plan.blanks),
                   "pause_reagents", "failed_curves")

\* l. 918-1009: the lights blinked and the first pause, the components that
\* are no start components, the lights blinked and the second pause
AddReagents ==
    /\ pc = "pause_reagents"
    /\ \E plan \in ComponentPlans :
          /\ request' = plan @@ request
          /\ Phase(pause(blink_rail_lights(
                        add_components(pause(blink_rail_lights(start, 3)),
                                       p300m_component_list(plan.source_well, FALSE),
                                       plan.levels),
                        3)),
                   "pause_start", "failed_reagents")

\* l. 1012-1089: the block heated, then the start components, the lights
\* blinked once
StartReaction ==
    /\ pc = "pause_start"
    /\ Phase(blink_rail_lights(
                 add_components(set_temperature(start, 50),
                                p300m_component_list(request.source_well, TRUE),
                                request.levels),
                 1),
             "end", "failed_start")
    /\ UNCHANGED request

NextRun == PrepareDilutions \/ StandardCurves \/ AddReagents \/ StartReaction

SpecRun == InitRun /\ [][NextRun]_vars

(***************************************************************************)
(* Helpers of the properties.                                              *)
(***************************************************************************)
AllWells ==
    UNION { { [plate |-> p, row |-> w[1], col |-> w[2]] : w \in wells_by_name(p) } :
            p \in PlateNames }

VolumeOf(vols, w) == vols[w.plate][<<w.row, w.col>>]

\* the sum of the well volumes of one row of a plate
RowTotal(vols, plate, row) ==
    LET sum[c \in 0 .. plate_cols(plate)] ==
            IF c = 0 THEN 0 ELSE vols[plate][<<row, c>>] + sum[c - 1]
    IN  sum[plate_cols(plate)]

\* the sum of all well volumes of one plate, counted row by row
PlateTotal(vols, plate) ==
    LET sum[r \in 0 .. plate_rows(plate)] ==
            IF r = 0 THEN 0 ELSE RowTotal(vols, plate, r - 1) + sum[r - 1]
    IN  sum[plate_rows(plate)]

IsAdjust == call.op = "adjust"

\* a start row the 8-channel branch of the plate's row count asserts against
Misaligned(w) ==
    \/ w.plate # "trash" /\ plate_rows(w.plate) = 8 /\ w.row # 0
    \/ w.plate # "trash" /\ plate_rows(w.plate) = 16 /\ w.row \notin {0, 1}

Unsupported(w) == w.plate # "trash" /\ plate_rows(w.plate) \notin {1, 8, 16}

\* the exception the alignment assert statements (l. 669, 673, 683, 687) raise
InvalidMultichannelAlignment == "AssertionError"

\* the exceptions adjust_well_volume raises by its own assert and raise
\* statements (l. 669-687, 694)
RaisedOnPurpose == {"AssertionError", "ValueError"}

(***************************************************************************)
(* Properties of the ledger.                                               *)
(***************************************************************************)

\* C1: a single-channel adjust between wells of plates of the ledger, the
\* destination not the trash, completes, lowers the total of the source plate
\* by exactly transfer_volume and raises the total of the destination plate
\* by exactly transfer_volume; when both wells are on one plate (or are the
\* same well) that plate's total is unchanged, and no other plate's total
\* changes.
C1_SingleChannelConservation ==
    (IsAdjust /\ call.num_channels = 1 /\ call.destination # trash
        /\ call.source.plate \in PlateNames
        /\ call.destination.plate \in PlateNames) =>
        /\ err = "none"
        /\ \A p \in PlateNames :
              PlateTotal(all_volumes, p) =
                  PlateTotal(prev_volumes, p)
                  - (IF p = call.source.plate THEN call.transfer_volume ELSE 0)
                  + (IF p = call.destination.plate THEN call.transfer_volume ELSE 0)

\* a single-channel transfer from the reservoir into an assay-plate well
C1_Witness ==
    /\ IsAdjust /\ call.num_channels = 1 /\ err = "none"
    /\ call.source.plate = "reservoir" /\ call.destination.plate = "assay"
    /\ PlateTotal(all_volumes, "assay") = call.transfer_volume
    /\ PlateTotal(all_volumes, "reservoir") = - call.transfer_volume

\* C3: the source loop of an 8-channel adjust from a 1-row plate lowers the
\* one source well by exactly 8 x transfer_volume and writes no other well.
C3_ReservoirSourceTimesEight ==
    (IsAdjust /\ call.num_channels = 8 /\ err = "none"
        /\ plate_rows(call.source.plate) = 1) =>
        \A w \in AllWells :
            VolumeOf(mid_volumes, w) - VolumeOf(prev_volumes, w) =
                IF w = call.source THEN - (8 * call.transfer_volume) ELSE 0

\* an 8-channel transfer from reservoir well A2 has completed
C3_Witness ==
    /\ IsAdjust /\ call.num_channels = 8 /\ err = "none"
    /\ call.source = [plate |-> "reservoir", row |-> 0, col |-> 2]
    /\ VolumeOf(mid_volumes, call.source) = - (8 * call.transfer_volume)

\* C4: the destination loop of an 8-channel adjust into row A of an 8-row
\* plate adds exactly transfer_volume to each of the 8 wells of the
\* destination column and to no other well.
C4_EightRowDestinationColumn ==
    (IsAdjust /\ call.num_channels = 8 /\ err = "none"
        /\ destination_plate_rows(call.destination) = 8
        /\ call.destination.row = 0) =>
        \A w \in AllWells :
            VolumeOf(all_volumes, w) - VolumeOf(mid_volumes, w) =
                IF w.plate = call.destination.plate /\ w.col = call.destination.col
                    THEN call.transfer_volume ELSE 0

\* an 8-channel transfer from the reservoir into deep-well column 2
C4_Witness ==
    /\ IsAdjust /\ call.num_channels = 8 /\ err = "none"
    /\ call.source.plate = "reservoir"
    /\ call.destination = [plate |-> "deepwell", row |-> 0, col |-> 2]
    /\ \A r \in 0 .. 7 : all_volumes["deepwell"][<<r, 2>>] = call.transfer_volume
    /\ \A r \in 0 .. 7 : all_volumes["deepwell"][<<r, 1>>] = 0

\* C5: an 8-channel adjust addressing a 16-row plate at start row A (B)
\* writes transfer_volume, multiplier 1, to exactly the 8 wells of rows
\* A, C, ..., O (B, D, ..., P) of that column and leaves the wells of the
\* other parity alone: as a decrement in the source loop when the plate is
\* the source, as an increment in the destination loop when it is the
\* destination.
C5_SixteenRowEveryOtherRow ==
    /\ (IsAdjust /\ call.num_channels = 8 /\ err = "none"
            /\ plate_rows(call.source.plate) = 16 /\ call.source.row \in {0, 1}) =>
          \A w \in AllWells :
              VolumeOf(mid_volumes, w) - VolumeOf(prev_volumes, w) =
                  IF /\ w.plate = call.source.plate /\ w.col = call.source.col
                     /\ w.row % 2 = call.source.row
                      THEN - call.transfer_volume ELSE 0
    /\ (IsAdjust /\ call.num_channels = 8 /\ err = "none"
            /\ destination_plate_rows(call.destination) = 16
            /\ call.destination.row \in {0, 1}) =>
          \A w \in AllWells :
              VolumeOf(all_volumes, w) - VolumeOf(mid_volumes, w) =
                  IF /\ w.plate = call.destination.plate
                     /\ w.col = call.destination.col
                     /\ w.row % 2 = call.destination.row
                      THEN call.transfer_volume ELSE 0

\* an 8-channel transfer from deep-well column 1 into assay column 2, start
\* row B: rows B, D, ..., P hold the volume, rows A, C, ..., O hold none
C5_Witness ==
    /\ IsAdjust /\ call.num_channels = 8 /\ err = "none"
    /\ call.source.plate = "deepwell"
    /\ call.destination = [plate |-> "assay", row |-> 1, col |-> 2]
    /\ \A r \in 0 .. 15 :
          all_volumes["assay"][<<r, 2>>] =
              IF r % 2 = 1 THEN call.transfer_volume ELSE 0

\* C6: an 8-channel adjust whose source or destination well is in a row
\* other than A of an 8-row plate, or other than A or B of a 16-row plate,
\* fails with the error of the alignment assertions.
C6_MisalignedFailsWithAlignmentError ==
    (IsAdjust /\ call.num_channels = 8
        /\ (Misaligned(call.source) \/ Misaligned(call.destination))) =>
        err = InvalidMultichannelAlignment

\* C7: an 8-channel adjust whose source plate or non-trash destination plate
\* has a row count other than 1, 8 or 16 fails with an error the function
\* raises for it.
C7_UnsupportedRowsFailOnPurpose ==
    (IsAdjust /\ call.num_channels = 8
        /\ (Unsupported(call.source) \/ Unsupported(call.destination))) =>
        err \in RaisedOnPurpose

\* C8: an adjust into the trash, 1- or 8-channel, raises no tracked well of
\* any plate, its destination loop writes nothing, and when it completes the
\* addressed source well is lower than before by transfer_volume times the
\* channels drawing from it.
C8_TrashIsWriteOnlyVoid ==
    (IsAdjust /\ call.destination = trash) =>
        /\ all_volumes = mid_volumes
        /\ \A w \in AllWells : VolumeOf(all_volumes, w) <= VolumeOf(prev_volumes, w)
        /\ err = "none" =>
              VolumeOf(all_volumes, call.source) =
                  VolumeOf(prev_volumes, call.source)
                  - call.transfer_volume
                    * (IF call.num_channels = 8 /\ plate_rows(call.source.plate) = 1
                           THEN 8 ELSE 1)

\* an 8-channel discard from deep-well column 1 into the trash
C8_Witness ==
    /\ IsAdjust /\ call.destination = trash /\ err = "none"
    /\ call.num_channels = 8
    /\ call.source = [plate |-> "deepwell", row |-> 0, col |-> 1]
    /\ \A r \in 0 .. 7 : all_volumes["deepwell"][<<r, 1>>] = - call.transfer_volume

\* C10: reset_well_volumes, from any ledger, leaves every well of every
\* registered plate at exactly 0 and keeps the registered plates and the
\* tracked well names of each plate as they were.
C10_ResetZeroesEveryWell ==
    [][call'.op = "reset" =>
          /\ \A w \in AllWells : VolumeOf(all_volumes', w) = 0
          /\ DOMAIN all_volumes' = DOMAIN all_volumes
          /\ \A p \in DOMAIN all_volumes :
                DOMAIN all_volumes'[p] = DOMAIN all_volumes[p]]_vars

\* a reset made after an adjust call had written the ledger
C10_Witness ==
    /\ call.op = "reset" /\ ncalls >= 1
    /\ \A w \in AllWells : VolumeOf(all_volumes, w) = 0

(***************************************************************************)
(* Properties of one transfer call (SpecTransfer).                         *)
(***************************************************************************)
Completed == pc = "done" /\ err = "none"

IsDistribute == request.op = "custom_transfer" /\ request.transfer_type = "distribute"

\* C2: the ledger never drifts from the physical state: after any completed
\* custom_transfer (single or distribute) or serial_dilution, the ledger's
\* net change of every tracked well equals the net volume the driver
\* aspirated from or dispensed into that well.
C2_LedgerMatchesLiquid ==
    Completed => \A w \in AllWells : VolumeOf(all_volumes, w) = VolumeOf(liquid, w)

\* C9: every tracked well volume is >= 0 after the ledger operations of a run
\* that starts from reset_well_volumes and performs a transfer or a serial
\* dilution.
C9_VolumesNeverNegative ==
    pc = "done" => \A w \in AllWells : VolumeOf(all_volumes, w) >= 0

(***************************************************************************)
(* The commands of one call, read back from the command list.              *)
(***************************************************************************)
\* the commands custom_transfer issues before its transfer strategy starts:
\* the tip pick-up and the prewet (l. 458-468)
preamble_length ==
    (IF request.has_tip THEN 0 ELSE 1)
    + (IF request.prewet_tip THEN (IF request.do_blowout THEN 4 ELSE 3) ELSE 0)

\* the commands of the transfer strategy
transfer_events == SubSeq(events, preamble_length + 1, Len(events))

IsCustomTransfer == request.op = "custom_transfer"

VolumeOutOfRange == "AssertionError"

\* C11: custom_transfer with a transfer volume below the pipette's minimum or
\* above its maximum fails with the range error before any driver command is
\* issued and before any ledger change; a transfer volume equal to the
\* minimum or to the maximum passes the range check.
C11_RangeCheckedBeforeAnything ==
    (pc = "done" /\ IsCustomTransfer) =>
        IF request.transfer_volume < min_volume(request.pipette)
              \/ request.transfer_volume > max_volume(request.pipette)
            THEN /\ err = VolumeOutOfRange
                 /\ events = <<>>
                 /\ all_volumes = ZeroVolumes
                 /\ liquid = ZeroVolumes
                 /\ tips = [NoTips EXCEPT ![request.pipette].has_tip = request.has_tip]
            ELSE ~ (err = VolumeOutOfRange /\ events = <<>>)

\* a p300m call below the minimum was refused, with a tip still to pick up
C11_Witness ==
    /\ pc = "done" /\ IsCustomTransfer
    /\ request.pipette = "p300m" /\ request.transfer_volume = 1
    /\ ~ request.has_tip
    /\ err = VolumeOutOfRange /\ events = <<>>

(***************************************************************************)
(* Batches of a distribute call: an aspirate of the transfer strategy      *)
(* opens a batch, the dispenses up to the next aspirate belong to it.      *)
(***************************************************************************)
AspirateIndices == { i \in 1 .. Len(transfer_events) : transfer_events[i].op = "aspirate" }

DispenseIndices == { i \in 1 .. Len(transfer_events) : transfer_events[i].op = "dispense" }

\* the number of dispenses between the aspirate at index i and the next one
BatchSize(i) ==
    Cardinality({ j \in DispenseIndices :
                    /\ j > i
                    /\ \A k \in AspirateIndices : ~ (i < k /\ k < j) })

\* the destinations a batch can hold: floor(pipetteMaxVolume * 0.9 / transferVolume)
Capacity == (9 * max_volume(request.pipette)) \div (10 * request.transfer_volume)

RangeAccepted ==
    /\ request.transfer_volume >= min_volume(request.pipette)
    /\ request.transfer_volume <= max_volume(request.pipette)

\* the errors the code raises by a check of its own
CheckedErrors == {"AssertionError", "RuntimeError", "ValueError"}

\* every destination of the request got exactly one dispense
EachDestinationOnce ==
    /\ Cardinality(DispenseIndices) = Len(request.destination_list)
    /\ \A w \in AllWells :
          Cardinality({ j \in DispenseIndices : transfer_events[j].well = w })
            = Cardinality({ k \in 1 .. Len(request.destination_list) :
                              request.destination_list[k] = w })

\* C12: for every distribute call, with or without even-split, the batch
\* sizes sum to the number of destinations, every destination receives
\* exactly one dispense, and no batch holds more than
\* floor(pipetteMaxVolume * 0.9 / transferVolume) destinations.
C12_BatchesCoverDestinations ==
    (pc = "done" /\ IsDistribute /\ RangeAccepted /\ err \notin CheckedErrors) =>
        /\ EachDestinationOnce
        /\ \A i \in AspirateIndices : BatchSize(i) <= Capacity

IsEvenSplit == IsDistribute /\ request.evenly_split_transfers

\* C13: with even-split enabled, all batches of one distribute call have the
\* same number of destinations (no smaller trailing batch), for every
\* destination count >= 1 and every per-aspirate capacity >= 1.
C13_EvenSplitBatchesEqual ==
    (pc = "done" /\ IsEvenSplit /\ RangeAccepted /\ err \notin CheckedErrors
        /\ Len(request.destination_list) >= 1 /\ Capacity >= 1) =>
        \A i, j \in AspirateIndices : BatchSize(i) = BatchSize(j)

\* the call of the spec's example: 20 ul with the 300 ul pipette into 18
\* destinations, even-split enabled
IsExampleCall ==
    /\ IsEvenSplit
    /\ request.pipette = "p300m" /\ request.transfer_volume = 20
    /\ Len(request.destination_list) = 18

\* C14: a distribute call with transfer volume 20, pipette maximum 300,
\* carryover 0.1, 18 destinations and even-split enabled performs exactly two
\* aspirates, each followed by exactly 9 dispenses.
C14_EighteenSplitIntoTwoNines ==
    (pc = "done" /\ IsExampleCall) =>
        /\ err = "none"
        /\ Cardinality(AspirateIndices) = 2
        /\ \A i \in AspirateIndices : BatchSize(i) = 9

\* the example call has run
C14_Witness ==
    /\ pc = "done" /\ IsExampleCall /\ err = "none"
    /\ Cardinality(DispenseIndices) = 18

\* the wells dispensed into, in the order of the dispenses
DispensedWells ==
    LET idx == DispenseIndices
        nth[k \in 1 .. Cardinality(idx)] ==
            CHOOSE i \in idx : Cardinality({ j \in idx : j <= i }) = k
    IN  [k \in 1 .. Cardinality(idx) |-> transfer_events[nth[k]].well]

Reverse(seq) == [k \in 1 .. Len(seq) |-> seq[Len(seq) - k + 1]]

\* the dispenses made so far follow the reversed destination list, all of
\* it once the call has returned
ConsumedAsStack ==
    /\ Len(DispensedWells) <= Len(request.destination_list)
    /\ DispensedWells
         = SubSeq(Reverse(request.destination_list), 1, Len(DispensedWells))
    /\ err = "none" => Len(DispensedWells) = Len(request.destination_list)

\* C15: the distribute strategy consumes the destination list as a stack: the
\* wells are dispensed into, across all batches, in exactly the reverse of
\* the input order, and the caller's destination list is left unmodified.
C15_DistributeReversesDestinations ==
    [][(pc = "ready" /\ IsDistribute) =>
          (ConsumedAsStack' /\ request'.destination_list = request.destination_list)]_vars

\* a distribute call over at least three destinations in more than one batch
\* has returned, and the caller's list still holds them all
C15_Witness ==
    /\ pc = "done" /\ IsDistribute /\ err = "none"
    /\ Cardinality(AspirateIndices) >= 2
    /\ Len(DispensedWells) >= 3
    /\ DispensedWells # request.destination_list
    /\ request.destination_list = Reverse(DispensedWells)

\* what the command at index k adds to the tip: an aspirate its volume, a
\* dispense, a blow-out or a tip drop the negative of the volume it let go
TipChange(k) ==
    LET ev == events[k]
    IN  CASE ev.op = "aspirate" -> ev.volume
          [] ev.op \in {"dispense", "blow_out", "drop_tip"} -> - ev.volume
          [] OTHER -> 0

\* the commands of the run given to pipette p with an operation of ops, in
\* the order they were issued
CommandsOf(p, ops) ==
    SelectSeq(events, LAMBDA ev : ev.pipette = p /\ ev.op \in ops)

\* the indices of the commands of the run with operation op
IndicesOf(op) == { k \in 1 .. Len(events) : events[k].op = op }

\* the sum of TipChange over the commands lo .. hi, by halves
RECURSIVE TipChangeOver(_, _)
TipChangeOver(lo, hi) ==
    IF lo > hi THEN 0
    ELSE IF lo = hi THEN TipChange(lo)
    ELSE LET mid == (lo + hi) \div 2
         IN  TipChangeOver(lo, mid) + TipChangeOver(mid + 1, hi)

\* the volume in the tip before the command at index i of the command list
TipVolumeBefore(i) == TipChangeOver(1, i - 1)

\* the volume the aspirate command of a request draws into a tip holding
\* `held`: the driver takes a request of 0 ul as one for the free capacity
DrawnOnRequest(requested, held) ==
    IF requested = 0 THEN max_volume(request.pipette) - held ELSE requested

\* C16: in the distribute strategy each batch's aspirate request equals
\* batchSize * transferVolume + pipetteMaxVolume * 0.1 minus the volume
\* already in the tip at that moment.
C16_AspirateRequestOfBatch ==
    (pc = "done" /\ IsDistribute) =>
        \A i \in AspirateIndices :
            transfer_events[i].volume
              = DrawnOnRequest(BatchSize(i) * request.transfer_volume
                                 + max_volume(request.pipette) \div 10
                                 - TipVolumeBefore(preamble_length + i),
                               TipVolumeBefore(preamble_length + i))

\* a second batch was aspirated with the carryover of the first still in the tip
C16_Witness ==
    /\ pc = "done" /\ IsDistribute /\ err = "none"
    /\ \E i \in AspirateIndices :
          /\ TipVolumeBefore(preamble_length + i) > 0
          /\ BatchSize(i) >= 2
          /\ transfer_events[i].volume = BatchSize(i) * request.transfer_volume

\* the last command of the call is the tip drop
EndsWithDropTip == events # <<>> /\ events[Len(events)].op = "drop_tip"

\* C17: for every transfer volume the range check accepts and every finite
\* destination list (the empty list included, with or without even-split),
\* the distribute strategy terminates normally with the destination stack
\* empty, and then drops the tip if and only if drop-tip was requested.
C17_DistributeTerminates ==
    (pc = "done" /\ IsDistribute /\ RangeAccepted) =>
        /\ err = "none"
        /\ Len(DispensedWells) = Len(request.destination_list)
        /\ EndsWithDropTip <=> request.drop_tip
        /\ tips[request.pipette].has_tip <=> ~ request.drop_tip

IsSingle == IsCustomTransfer /\ request.transfer_type = "single"

\* the commands the single strategy owes one destination: aspirate, touch
\* tip, the dispense sequence (to the well, to its edge, dispense, back to
\* the centre, the blow-out moves and the touch tip when asked for), adjust
DestinationBlock ==
    <<"aspirate", "touch_tip">>
    \o (IF request.inspect_tips THEN <<"move_to", "delay">> ELSE <<>>)
    \o <<"move_to", "move_direct", "dispense", "move_direct">>
    \o (IF request.do_blowout
            THEN <<"move_to", "move_direct", "blow_out", "move_direct">> ELSE <<>>)
    \o (IF request.do_touch_tip THEN <<"touch_tip">> ELSE <<>>)
    \o <<"adjust">>

\* the command at index i of the strategy is the one the order prescribes
InSingleOrder(i) ==
    LET k  == Len(DestinationBlock)
        n  == Len(request.destination_list)
        d  == ((i - 1) \div k) + 1
        o  == ((i - 1) % k) + 1
        ev == transfer_events[i]
    IN  IF d <= n
            THEN /\ ev.op = DestinationBlock[o]
                 /\ o = 1 => (ev.volume = request.transfer_volume
                                /\ ev.well = request.source)
                 /\ o >= 3 => ev.well = request.destination_list[d]
                 /\ ev.op = "dispense" => ev.volume = request.transfer_volume
                 /\ o = k => (ev.volume = request.transfer_volume
                                /\ ev.source = request.source)
            ELSE i = n * k + 1 /\ ev.op = "drop_tip" /\ request.drop_tip

\* C18: in the single strategy, for each destination taken in input order,
\* the events are, in this order: the aspirate of exactly the transfer
\* volume at the source, touch tip, the dispense sequence into that
\* destination, one adjust(transferVolume, source, destination); no event of
\* the next destination precedes the adjust of the current one, and the tip
\* is dropped once after the last destination iff drop-tip was requested.
C18_SingleStrategyOrder ==
    (pc = "done" /\ IsSingle) =>
        /\ \A i \in 1 .. Len(transfer_events) : InSingleOrder(i)
        /\ err = "none" =>
              Len(transfer_events)
                = Len(request.destination_list) * Len(DestinationBlock)
                  + (IF request.drop_tip THEN 1 ELSE 0)

\* a single transfer into three destinations with blow-out, the tip dropped
C18_Witness ==
    /\ pc = "done" /\ IsSingle /\ err = "none"
    /\ Len(request.destination_list) = 3
    /\ request.do_blowout /\ request.drop_tip
    /\ EndsWithDropTip

IsSerialDilution == request.op = "serial_dilution"

Distinct(seq) == \A i, j \in 1 .. Len(seq) : seq[i] = seq[j] => i = j

\* C19: for a serial dilution over any sequence of n >= 2 distinct wells with
\* a single-channel pipette, after completion the ledger shows the first
\* well changed by -transferVolume and every other well, the last included,
\* changed by net 0, whatever mix_before, mix_steps and mix_volume are.
C19_SerialDilutionLedger ==
    (pc = "done" /\ IsSerialDilution /\ channels(request.pipette) = 1
        /\ Len(request.wells) >= 2 /\ Distinct(request.wells)) =>
        /\ err = "none"
        /\ \A w \in AllWells :
              VolumeOf(all_volumes, w)
                = IF w = request.wells[1] THEN - request.transfer_volume ELSE 0

\* a dilution over four distinct wells, mixed before and after each step
C19_Witness ==
    /\ pc = "done" /\ IsSerialDilution /\ err = "none"
    /\ channels(request.pipette) = 1
    /\ Len(request.wells) = 4 /\ Distinct(request.wells)
    /\ request.mix_before /\ request.mix_steps = 2 /\ request.mix_volume = 10
    /\ VolumeOf(all_volumes, request.wells[1]) = - request.transfer_volume
    /\ VolumeOf(all_volumes, request.wells[4]) = 0

\* the adjust commands of the call
AdjustIndices == { i \in 1 .. Len(events) : events[i].op = "adjust" }

\* C20: serial_dilution called with a single-well sequence performs no
\* inter-well transfer and completes normally, doing only the trailing
\* disposal: one aspirate of the transfer volume from that well, one adjust
\* to the trash sink, and a tip drop.
C20_SingleWellOnlyDisposal ==
    (pc = "done" /\ IsSerialDilution /\ Len(request.wells) = 1) =>
        /\ err = "none"
        /\ Len(events) >= 3
        /\ LET n == Len(events)
           IN  /\ events[n - 2].op = "aspirate"
               /\ events[n - 2].volume = request.transfer_volume
               /\ events[n - 2].well = request.wells[1]
               /\ events[n - 1].op = "adjust"
               /\ events[n - 1].well = trash
               /\ events[n - 1].source = request.wells[1]
               /\ events[n].op = "drop_tip"
        /\ Cardinality(AdjustIndices) = 1

\* the commands serial_dilution issues before its first step: the tip
\* pick-up when none is mounted and the mixing of the first well
dilution_preamble_length ==
    (IF request.has_tip THEN 0 ELSE 1)
    + (IF request.mix_before
           THEN 3 * request.mix_steps + (IF request.do_blowout THEN 1 ELSE 0) + 1
           ELSE 0)

\* the commands of the dilution steps and of the trailing disposal
dilution_events ==
    SubSeq(events, dilution_preamble_length + 1, Len(events))

\* the commands one dilution step owes: the transfer, its adjust, the mix
\* cycles, the blow-out when asked for, the touch tip, the tip change
StepBlock ==
    <<"aspirate", "dispense", "adjust">>
    \o [j \in 1 .. 3 * request.mix_steps |->
            <<"aspirate", "dispense", "delay">>[((j - 1) % 3) + 1]]
    \o (IF request.do_blowout THEN <<"blow_out">> ELSE <<>>)
    \o <<"touch_tip">>
    \o (IF request.always_get_new_tip THEN <<"drop_tip", "pick_up_tip">> ELSE <<>>)

\* C21: after the last adjacent pair, serial_dilution aspirates the transfer
\* volume exactly once more from the last well, records it with one
\* adjust(last well -> trash), issues no further dispense, and then drops
\* the tip; on return the pipette has no tip mounted, for every setting of
\* always_get_new_tip.
C21_TrailingDisposal ==
    (pc = "done" /\ IsSerialDilution /\ err = "none") =>
        LET n    == Len(request.wells)
            k    == Len(StepBlock)
            tail == SubSeq(dilution_events, (n - 1) * k + 1, Len(dilution_events))
        IN  /\ n >= 2
            /\ Len(tail) = 3
            /\ tail[1].op = "aspirate"
            /\ tail[1].volume = request.transfer_volume
            /\ tail[1].well = request.wells[n]
            /\ tail[2].op = "adjust"
            /\ tail[2].volume = request.transfer_volume
            /\ tail[2].source = request.wells[n]
            /\ tail[2].well = trash
            /\ tail[3].op = "drop_tip"
            /\ ~ tips[request.pipette].has_tip

\* a dilution over three wells completed with the tip kept between the
\* steps: the disposal ends it and the tip is gone
C21_Witness ==
    /\ pc = "done" /\ IsSerialDilution /\ err = "none"
    /\ Len(request.wells) = 3
    /\ ~ request.always_get_new_tip
    /\ events[Len(events)].op = "drop_tip"
    /\ events[Len(events) - 1].well = trash
    /\ ~ tips[request.pipette].has_tip

\* the command at index i of the dilution is the one the step order
\* prescribes
InDilutionOrder(i) ==
    LET k  == Len(StepBlock)
        n  == Len(request.wells)
        d  == ((i - 1) \div k) + 1
        o  == ((i - 1) % k) + 1
        ev == dilution_events[i]
    IN  IF d <= n - 1
            THEN /\ ev.op = StepBlock[o]
                 /\ o = 1 => (ev.volume = request.transfer_volume
                                /\ ev.well = request.wells[d])
                 /\ o = 2 => (ev.volume = request.transfer_volume
                                /\ ev.well = request.wells[d + 1])
                 /\ o = 3 => (ev.volume = request.transfer_volume
                                /\ ev.source = request.wells[d]
                                /\ ev.well = request.wells[d + 1])
                 /\ (o > 3 /\ ev.op \in {"aspirate", "dispense"}) =>
                        (ev.volume = request.mix_volume
                           /\ ev.well = request.wells[d + 1])
            ELSE /\ i <= (n - 1) * k + 3
                 /\ i = (n - 1) * k + 1 =>
                        (ev.op = "aspirate" /\ ev.well = request.wells[n])

\* C22: in serial_dilution, for every step i, the transfer into wells[i+1]
\* is followed by its adjust and then by all mix_steps mix cycles at
\* wells[i+1], and all of these complete before the aspirate that draws the
\* transfer volume out of wells[i+1] for step i+1 or for the trailing
\* disposal.
C22_StepMixedBeforeNextDraw ==
    (pc = "done" /\ IsSerialDilution /\ Len(request.wells) >= 2) =>
        /\ \A i \in 1 .. Len(dilution_events) : InDilutionOrder(i)
        /\ err = "none" =>
              Len(dilution_events)
                = (Len(request.wells) - 1) * Len(StepBlock) + 3

\* a dilution over four wells with two mix cycles per step: the second
\* step's aspirate out of wells[2] comes right after the block of step 1
C22_Witness ==
    /\ pc = "done" /\ IsSerialDilution /\ err = "none"
    /\ Len(request.wells) = 4 /\ request.mix_steps = 2
    /\ Len(dilution_events) > Len(StepBlock)
    /\ dilution_events[Len(StepBlock) + 1].op = "aspirate"
    /\ dilution_events[Len(StepBlock) + 1].well = request.wells[2]
    /\ dilution_events[Len(StepBlock) - 1].well = request.wells[2]

\* C23: when blow-out is enabled in the dispense engine, the blow-out is
\* issued with the tip at the configured blow-out height (dest_blowout_height
\* above the well bottom) and at the same lateral offset as the dispense.
C23_BlowoutAtBlowoutHeight ==
    (pc = "done" /\ IsSingle /\ request.do_blowout) =>
        \A i \in 1 .. Len(transfer_events) :
            transfer_events[i].op = "blow_out" =>
                /\ transfer_events[i].z
                     = dispense_arguments(request, TRUE).dest_blowout_height
                /\ transfer_events[i].offset = request.offset_direction

\* the call reaches the dispense engine: the volume passed the range check,
\* there is a destination, and the strategy gets as far as a dispense
EngineCalled ==
    /\ IsCustomTransfer /\ RangeAccepted
    /\ request.destination_list # <<>>
    /\ IsDistribute =>
          (IF request.evenly_split_transfers
               THEN even_wells_per_aspirate(Len(request.destination_list), Capacity)
               ELSE Capacity) > 0

\* the destination the engine is called for first
FirstDestination ==
    IF IsDistribute THEN request.destination_list[Len(request.destination_list)]
    ELSE request.destination_list[1]

\* the engine issued nothing: no move, dispense, blow-out or touch tip of
\* its own (speed 20), and the ledger has no adjust
NothingDispensed ==
    \A i \in 1 .. Len(transfer_events) :
        /\ transfer_events[i].op
             \notin {"move_to", "move_direct", "dispense", "blow_out", "delay",
                     "adjust"}
        /\ transfer_events[i].op = "touch_tip" => transfer_events[i].volume = 60

InvalidOffsetDirection == "RuntimeError"

InvalidGeometry == "AssertionError"

TooHigh == request.dispense_height >= well_depth(FirstDestination.plate)

\* C24 as stated: a dispense requested with an offset direction outside
\* {center, left, right, top, bottom} fails with InvalidOffsetDirection
\* before the dispense engine issues any move, dispense, blow-out or
\* touch-tip, and no ledger adjust is made for that destination.
C24_AsStated ==
    (pc = "done" /\ EngineCalled /\ request.offset_direction \notin OffsetDirections) =>
        /\ err = InvalidOffsetDirection
        /\ NothingDispensed

\* C24: a dispense requested with an offset direction outside {center, left,
\* right, top, bottom} at a dispense height below the well depth fails with
\* InvalidOffsetDirection, and at a dispense height at or above the well
\* depth with InvalidGeometry, in both cases before the dispense engine
\* issues any move, dispense, blow-out or touch-tip, and no ledger adjust is
\* made for that destination.
C24_InvalidDirectionFailsFirst ==
    (pc = "done" /\ EngineCalled /\ request.offset_direction \notin OffsetDirections) =>
        /\ err = IF TooHigh THEN InvalidGeometry ELSE InvalidOffsetDirection
        /\ NothingDispensed

\* a single transfer towards "up" at 2 mm: the aspirate and the touch tip at
\* the source are the last commands
C24_Witness ==
    /\ pc = "done" /\ IsSingle /\ EngineCalled
    /\ request.offset_direction = "up" /\ request.dispense_height = 200
    /\ err = InvalidOffsetDirection
    /\ Len(transfer_events) = 2
    /\ transfer_events[1].op = "aspirate"
    /\ all_volumes = ZeroVolumes

\* C25: a dispense through the dispense engine at a dispense height greater
\* than or equal to the destination well's depth fails with InvalidGeometry
\* before any move or dispense is issued, for every offset direction
\* including center.
C25_TooHighFailsBeforeAnyMove ==
    (pc = "done" /\ EngineCalled /\ TooHigh) =>
        /\ err = InvalidGeometry
        /\ NothingDispensed

\* a dispense to the centre of an assay well at exactly its depth
C25_Witness ==
    /\ pc = "done" /\ EngineCalled /\ TooHigh
    /\ request.offset_direction = "center"
    /\ request.dispense_height = well_depth("assay")
    /\ FirstDestination.plate = "assay"
    /\ err = InvalidGeometry
    /\ transfer_events # <<>>
    /\ NothingDispensed

IsLetter(c) == (c >= 65 /\ c <= 90) \/ (c >= 97 /\ c <= 122)

RECURSIVE StripZeros(_)
StripZeros(s) ==
    IF Len(s) > 1 /\ s[1] = 48 THEN StripZeros(Tail(s)) ELSE s

\* one letter followed by a 1-based integer column
WellFormed(n) ==
    /\ Len(n) >= 2
    /\ IsLetter(n[1])
    /\ IsDigits(Tail(n))
    /\ StripZeros(Tail(n)) # <<48>>

\* upper-case row letter, column without leading zeros
Normalized(n) ==
    <<IF n[1] >= 97 THEN n[1] - 32 ELSE n[1]>> \o StripZeros(Tail(n))

\* C26: for every well name n made of one letter (either case) followed by
\* a 1-based integer column, well_name_from_indices(indices_from_well_name(n))
\* equals the normalized name (upper-case row letter, column without leading
\* zeros); and for every row index 0..25 and column index >= 0,
\* indices_from_well_name(well_name_from_indices(row, col)) = (row, col).
C26_WellNameRoundTrip ==
    /\ (pc = "done" /\ request.op = "offset_well" /\ request.col_offset = 0
          /\ request.row_offset = 0 /\ WellFormed(request.well_name)) =>
           /\ result.err = "none"
           /\ result.name = Normalized(request.well_name)
    /\ (pc = "done" /\ request.op = "well_name_from_indices") =>
           /\ result.err = "none"
           /\ indices_from_well_name(result.name)
                = [err |-> "none", row |-> request.row, col |-> request.col]

\* "b01" comes back as "B1"
C26_Witness ==
    /\ pc = "done" /\ request.op = "offset_well"
    /\ request.col_offset = 0 /\ request.row_offset = 0
    /\ request.well_name = <<98, 48, 49>>
    /\ result.name = <<66, 49>>

\* the exceptions the parsing of a name can end with
InvalidWellName == {"ValueError", "TypeError"}

\* C27: indices_from_well_name fails with InvalidWellName for every name
\* that is not a single leading letter followed by a 1-based integer column
\* (a leading digit or other non-letter first character, an empty column
\* part, column 0); it never returns a negative row or column index.
C27_MalformedNamesRejected ==
    (pc = "done" /\ request.op = "indices_from_well_name") =>
        /\ ~ WellFormed(request.well_name) => result.err \in InvalidWellName
        /\ result.err = "none" => (result.row >= 0 /\ result.col >= 0)

\* the phases of the run that add reagents, completed or not
InReagentPhase ==
    request.op = "run"
    /\ pc \in {"pause_start", "end", "failed_reagents", "failed_start"}

WarningIndices == { i \in 1 .. Len(events) : events[i].op = "warning" }

\* C28: a destination well whose tracked volume exceeds its safe capacity
\* (current volume plus volume to add above 100 ul on the 384-well assay
\* plate) only produces a logged warning: the dispense height is still
\* returned and the subsequent transfer into that well proceeds without any
\* fatal error.
C28_OverCapacityOnlyWarns ==
    (InReagentPhase /\ WarningIndices # {}) =>
        /\ err = "none"
        /\ \A i \in WarningIndices :
              \E j \in i + 1 .. Len(events) :
                  /\ events[j].op = "dispense"
                  /\ events[j].well = events[i].well
                  /\ events[j].z = events[i].z

TipErrors == {"UnexpectedTipAttachError", "NoTipAttachedError"}

TipEvents == {"pick_up_tip", "drop_tip"}

\* the commands that mount a tip, use it or let it go
TipCommands ==
    {"pick_up_tip", "aspirate", "dispense", "blow_out", "touch_tip", "drop_tip"}

\* C29: across a whole protocol run and for each pipette, pick-up-tip is
\* issued only when no tip is mounted (it is the pipette's first tip command
\* or follows its tip drop), and aspirate, dispense, blow-out, touch-tip and
\* drop-tip are issued only while a tip is mounted (after a pick-up with no
\* tip drop since); at each operator pause and at the end of the run no
\* pipette has a tip mounted.
C29_TipDiscipline ==
    request.op = "run" =>
        /\ err \notin TipErrors
        /\ \A p \in Pipettes : \A cmds \in {CommandsOf(p, TipCommands)} :
              \A k \in 1 .. Len(cmds) :
                  IF cmds[k].op = "pick_up_tip"
                      THEN k > 1 => cmds[k - 1].op = "drop_tip"
                      ELSE k > 1 /\ cmds[k - 1].op # "drop_tip"
        /\ pc \in {"pause_reagents", "pause_start", "end"} =>
              \A p \in Pipettes : ~ tips[p].has_tip

\* a run through the dilutions, the standard curve, two reagent levels and a
\* start reagent to its end: both pipettes have picked up and dropped tips
C29_Witness ==
    /\ request.op = "run" /\ pc = "end" /\ err = "none"
    /\ Len(request.levels["buffer"]) = 2 /\ request.levels["enzyme"] # <<>>
    /\ p300m_component_list(request.source_well, FALSE) = <<"buffer">>
    /\ p300m_component_list(request.source_well, TRUE) = <<"enzyme">>
    /\ \A p \in Pipettes : \A cmds \in {CommandsOf(p, TipEvents)} :
          /\ Len(cmds) >= 4
          /\ cmds[1].op = "pick_up_tip"
          /\ cmds[Len(cmds)].op = "drop_tip"
    /\ \E i \in 1 .. Len(events) :
          /\ events[i].op = "drop_tip"
          /\ \A k \in i + 1 .. Len(events) : events[k].op = "delay"
    /\ \A p \in Pipettes : ~ tips[p].has_tip

\* the commands that change what a tip holds: a new tip holds nothing
VolumeCommands == {"pick_up_tip", "aspirate", "dispense", "blow_out", "drop_tip"}

\* what the command cmd adds to the tip
VolumeChange(cmd) ==
    CASE cmd.op = "aspirate" -> cmd.volume
      [] cmd.op \in {"dispense", "blow_out", "drop_tip"} -> - cmd.volume
      [] OTHER -> 0

\* the commands of the p300m that change what its tip holds, from the
\* standard curve on: the distribute call of the curve (l. 333-345, with its
\* prewet) and those of the reagent additions (l. 987-1001, 1064-1077)
DistributeCommands ==
    LET announced == IndicesOf("preparing")
    IN  IF announced = {} THEN <<>>
        ELSE SelectSeq(SubSeq(events, CHOOSE k \in announced : TRUE, Len(events)),
                       LAMBDA ev : ev.pipette = "p300m" /\ ev.op \in VolumeCommands)

\* the sum of VolumeChange over the commands lo .. hi of cmds, by halves
RECURSIVE VolumeChangeOver(_, _, _)
VolumeChangeOver(cmds, lo, hi) ==
    IF lo > hi THEN 0
    ELSE IF lo = hi THEN VolumeChange(cmds[lo])
    ELSE LET mid == (lo + hi) \div 2
         IN  VolumeChangeOver(cmds, lo, mid) + VolumeChangeOver(cmds, mid + 1, hi)

\* the volume in the tip after command k of cmds: what the commands since the
\* pick-up of the tip (at the indices pickups) have drawn and let go
HeldAfter(cmds, pickups, k) ==
    LET before == { j \in pickups : j <= k }
    IN  IF before = {} THEN VolumeChangeOver(cmds, 1, k)
        ELSE VolumeChangeOver(cmds, CHOOSE j \in before : \A m \in before : m <= j, k)

\* command k of cmds is the last dispense of a batch of a distribute call: a
\* dispense into a destination, a well of the assay plate (the dispense of
\* the prewet goes back to the source), that no dispense follows; a dispense
\* the run failed after is the last of its batch only by accident
LastDispenseOfBatch(cmds, k) ==
    /\ cmds[k].op = "dispense"
    /\ cmds[k].well.plate = "assay"
    /\ k < Len(cmds) => cmds[k + 1].op # "dispense"
    /\ k = Len(cmds) => err = "none"

\* C30: during a distribute transfer the volume held in the tip never
\* exceeds pipetteMaxVolume and never drops below 0, and after the last
\* dispense of every batch the tip holds exactly the carryover volume
\* 0.1 * pipetteMaxVolume; this also holds across consecutive distribute
\* calls that reuse the same tip (drop_tip = false) with different transfer
\* volumes.  The p300m makes every distribute call of a run.
C30_TipVolumeWithinCapacity ==
    request.op = "run" =>
        \A cmds \in {DistributeCommands} :
            \A pickups \in {{ j \in 1 .. Len(cmds) : cmds[j].op = "pick_up_tip" }} :
                \A k \in 1 .. Len(cmds) :
                    \A held \in {HeldAfter(cmds, pickups, k)} :
                        /\ held >= 0
                        /\ held <= max_volume("p300m")
                        /\ LastDispenseOfBatch(cmds, k) =>
                               held = max_volume("p300m") \div 10

\* a level of 140 ul for row A and 20 ul for row B with one tip: the call
\* for row A aspirates a second batch on top of the carryover of the first,
\* and the call for row B aspirates on top of the carryover of the call for
\* row A
C30_Witness ==
    /\ InReagentPhase /\ err = "none"
    /\ \A cmds \in {DistributeCommands} :
          \E i, j \in 2 .. Len(cmds) :
              /\ i < j
              /\ cmds[i - 1].op = "dispense" /\ cmds[i - 1].volume = 140
              /\ cmds[i].op = "aspirate" /\ cmds[i].volume = 140
              /\ cmds[j - 1].op = "dispense" /\ cmds[j - 1].volume = 140
              /\ cmds[j].op = "aspirate"
              /\ cmds[j].volume = 20 * ReagentCols
              /\ \A k \in i .. j : cmds[k].op \notin TipEvents

(***************************************************************************)
(* Properties of the failing adjust, of the dispense engine's order, of    *)
(* the even split, and of the phases of the run.                           *)
(***************************************************************************)

\* C31: whenever an adjust fails, whatever the reason (a misaligned start
\* row, a source or destination plate with an unsupported row count, a
\* channel count other than 1 or 8), the ledger after the call equals the
\* ledger before it: no source well decremented, no destination well
\* incremented.
C31_FailedAdjustLeavesLedger ==
    (IsAdjust /\ err # "none") => all_volumes = prev_volumes

\* an 8-channel adjust into a well of a plate with an unsupported row count
\* has failed
C31_Witness ==
    /\ IsAdjust /\ err # "none"
    /\ call.num_channels = 8
    /\ call.source.plate = "reservoir"
    /\ Unsupported(call.destination)
    /\ all_volumes = prev_volumes

\* a well of a plate whose row count the 8-channel branches handle, in a
\* start row they accept
SupportedAligned(w) ==
    /\ w.plate # "trash"
    /\ plate_rows(w.plate) \in {1, 8, 16}
    /\ ~ Misaligned(w)

\* the sum of the ledger over every plate
LedgerTotal(vols) ==
    LET names == <<"reservoir", "deepwell", "assay">>
        sum[i \in 0 .. Len(names)] ==
            IF i = 0 THEN 0 ELSE PlateTotal(vols, names[i]) + sum[i - 1]
    IN  sum[Len(names)]

\* C32: an 8-channel adjust whose source and destination are each on a plate
\* of 1, 8 or 16 rows in an aligned start row, the destination not the
\* trash, completes; its source loop lowers the total of the source plate by
\* exactly 8 x transfer_volume and its destination loop raises the total of
\* the destination plate by exactly 8 x transfer_volume, no other plate's
\* total changes, and the total over all plates is what it was before.
C32_EightChannelConservation ==
    (IsAdjust /\ call.num_channels = 8
        /\ SupportedAligned(call.source) /\ SupportedAligned(call.destination)) =>
        /\ err = "none"
        /\ PlateTotal(mid_volumes, call.source.plate)
               = PlateTotal(prev_volumes, call.source.plate)
                     - 8 * call.transfer_volume
        /\ PlateTotal(all_volumes, call.destination.plate)
               = PlateTotal(mid_volumes, call.destination.plate)
                     + 8 * call.transfer_volume
        /\ \A p \in PlateNames :
               /\ p # call.source.plate =>
                      PlateTotal(mid_volumes, p) = PlateTotal(prev_volumes, p)
               /\ p # call.destination.plate =>
                      PlateTotal(all_volumes, p) = PlateTotal(mid_volumes, p)
        /\ LedgerTotal(all_volumes) = LedgerTotal(prev_volumes)

\* an 8-channel adjust from one well of the reservoir into every other row of
\* a column of the 16-row plate has completed
C32_Witness ==
    /\ IsAdjust
    /\ call.num_channels = 8
    /\ err = "none"
    /\ plate_rows(call.source.plate) = 1
    /\ plate_rows(call.destination.plate) = 16
    /\ all_volumes # prev_volumes

\* the blow-out flag the strategy hands to the dispense engine (l. 481, 536)
EngineBlowout == IsSingle /\ request.do_blowout

\* what the engine issues after its return to the centre, up to the adjust
\* that follows the engine call
EngineTail ==
    (IF EngineBlowout
         THEN <<"move_to", "move_direct", "blow_out", "move_direct">> ELSE <<>>)
    \o (IF request.do_touch_tip THEN <<"touch_tip">> ELSE <<>>)
    \o <<"adjust">>

\* the dispense at index i of the strategy's commands stands in the engine's
\* sequence for its well
InEngineOrder(i) ==
    LET ev     == transfer_events[i]
        AtCentre(e, op) ==
            /\ e.op = op
            /\ e.well = ev.well
            /\ e.z = request.dispense_height
            /\ e.offset = "center"
    IN  /\ i > 2
        /\ AtCentre(transfer_events[i - 2], "move_to")
        /\ transfer_events[i - 1].op = "move_direct"
        /\ transfer_events[i - 1].well = ev.well
        /\ transfer_events[i - 1].z = request.dispense_height
        /\ transfer_events[i - 1].offset = request.offset_direction
        /\ ev.volume = request.transfer_volume
        /\ ev.z = request.dispense_height
        /\ ev.offset = request.offset_direction
        /\ i + 1 + Len(EngineTail) <= Len(transfer_events)
        /\ AtCentre(transfer_events[i + 1], "move_direct")
        /\ \A k \in 1 .. Len(EngineTail) :
               /\ transfer_events[i + 1 + k].op = EngineTail[k]
               /\ EngineTail[k] = "touch_tip" =>
                      /\ transfer_events[i + 1 + k].volume = 20
                      /\ transfer_events[i + 1 + k].volume < 60
               /\ EngineTail[k] # "adjust" =>
                      transfer_events[i + 1 + k].well = ev.well

\* C33: for every destination the dispense engine issues, in this order, the
\* move to the well centre at dispense height, the direct move to the offset
\* position at the same height, the dispense of the transfer volume there,
\* the direct move back to the centre, then the blow-out moves and the
\* blow-out only if blow-out is enabled, then a touch tip at reduced speed
\* (20 instead of 60) only if touch tip is enabled; nothing else comes
\* between them, so no dispense precedes its offset move and no return to
\* the centre precedes its dispense.
C33_EngineOrder ==
    (pc = "done" /\ IsCustomTransfer) =>
        /\ \A i \in 1 .. Len(transfer_events) :
               transfer_events[i].op = "dispense" => InEngineOrder(i)
        /\ \A i \in 1 .. Len(transfer_events) :
               (transfer_events[i].op = "move_direct"
                   /\ transfer_events[i].offset # "center") =>
                   /\ i < Len(transfer_events)
                   /\ transfer_events[i + 1].op \in {"dispense", "blow_out"}

\* a single transfer with blow-out and touch tip has dispensed against the
\* left wall of its destinations
C33_Witness ==
    /\ pc = "done" /\ IsSingle /\ err = "none"
    /\ request.do_blowout /\ request.do_touch_tip
    /\ request.offset_direction = "left"
    /\ Len(request.destination_list) >= 2
    /\ \E i \in 1 .. Len(transfer_events) :
           transfer_events[i].op = "dispense" /\ InEngineOrder(i)

\* the indices of the blow-outs in the command list of the call
BlowoutIndices == { i \in 1 .. Len(events) : events[i].op = "blow_out" }

\* C34: in the distribute strategy no blow-out is issued from the first
\* aspirate of the strategy to its last dispense (nor after it), whether or
\* not the blow-out flag of the transfer is set; a blow-out of the call is
\* the one of the prewet step, at the source, and is issued only with the
\* flag set.
C34_DistributeNeverBlowsOut ==
    (pc = "done" /\ IsDistribute) =>
        /\ \A i \in 1 .. Len(transfer_events) : transfer_events[i].op # "blow_out"
        /\ \A i \in BlowoutIndices :
               /\ request.prewet_tip /\ request.do_blowout
               /\ i = preamble_length - 1
               /\ events[i].well = request.source

\* a distribute call with the blow-out flag set and the tip prewetted has
\* dispensed into two or more destinations: its one blow-out is the prewet's
C34_Witness ==
    /\ pc = "done" /\ IsDistribute /\ err = "none"
    /\ request.do_blowout /\ request.prewet_tip
    /\ Len(request.destination_list) >= 2
    /\ Cardinality(BlowoutIndices) = 1
    /\ Cardinality(DispenseIndices) >= 2

\* C35: for every distribute call into one or more destinations with a
\* per-aspirate capacity m of one or more, the number of aspirates of the
\* strategy is ceil(total / m) whether or not even-split is enabled, so
\* enabling it never changes the number of batches; the batch size even-split
\* computes, and every batch it makes, is at most m.
C35_EvenSplitKeepsBatchCount ==
    (pc = "done" /\ IsDistribute /\ RangeAccepted
        /\ Len(request.destination_list) >= 1 /\ Capacity >= 1) =>
        /\ err = "none"
        /\ Cardinality(AspirateIndices)
             = ceil_div(Len(request.destination_list), Capacity)
        /\ IsEvenSplit =>
              /\ even_wells_per_aspirate(Len(request.destination_list), Capacity)
                   <= Capacity
              /\ \A i \in AspirateIndices : BatchSize(i) <= Capacity

\* an even-split call whose batches are smaller than the capacity allows, in
\* as many aspirates as without the split (10 destinations at capacity 9: two
\* batches of 5)
C35_Witness ==
    /\ pc = "done" /\ IsEvenSplit /\ RangeAccepted /\ err = "none"
    /\ Capacity >= 1
    /\ Cardinality(AspirateIndices) >= 2
    /\ Cardinality(AspirateIndices)
         = ceil_div(Len(request.destination_list), Capacity)
    /\ even_wells_per_aspirate(Len(request.destination_list), Capacity) < Capacity



\* the operator pauses, at the indices pauses, issued before the command at
\* index i
PausesBefore(pauses, i) == Cardinality({ k \in pauses : k < i })

\* the block was heated to 50 degrees (at one of the indices heats) after the
\* second pause and before the command at index i
HeatedBefore(pauses, heats, i) ==
    \E k \in heats :
        /\ k < i
        /\ events[k].volume = 50
        /\ PausesBefore(pauses, k) = 2

\* the commands that draw or release liquid
TransferIndices ==
    { i \in 1 .. Len(events) : events[i].op \in {"aspirate", "dispense"} }

\* the transfers of the addition of component c: those of the indices
\* transfers issued while c is the component loaded last (at one of the
\* indices loads)
ReagentTransfers(transfers, loads, c) ==
    { i \in transfers :
        \E k \in loads :
            /\ k < i
            /\ events[k].component = c
            /\ \A m \in loads : m < i => m <= k }

\* the transfers of c made for the standard curve: the aspirates, after the
\* curve was announced and before the first pause, from the source of the
\* curve's buffer if c is its compound, and from the source of the curve's
\* compound if c is that
CurveTransfers(transfers, pauses, c) ==
    { i \in transfers :
        /\ events[i].op = "aspirate"
        /\ \/ c = request.buffer_compound /\ events[i].well = request.buffer
           \/ c = request.compound /\ events[i].well = request.component
        /\ PausesBefore(pauses, i) = 0
        /\ \E k \in 1 .. i - 1 : events[k].op = "preparing" }

\* the component table marks the component a start component
StartComponent(c) ==
    \E k \in DOMAIN request.source_well :
        /\ request.source_well[k].component = c
        /\ request.source_well[k].start_component

\* the component is one the p300m adds before the start components
NonStartP300m(c) ==
    /\ ~ StartComponent(c)
    /\ \E k \in DOMAIN request.source_well :
           /\ request.source_well[k].component = c
           /\ request.source_well[k].pipette = "p300m"

\* the transfers at the indices of_c, those of component c, keep to the
\* phase of c, and those made after the first pause lie in one phase
InPhaseOf(pauses, heats, of_c, c) ==
    /\ \A i \in of_c :
           /\ StartComponent(c) =>
                  (PausesBefore(pauses, i) = 2 /\ HeatedBefore(pauses, heats, i))
           /\ NonStartP300m(c) => PausesBefore(pauses, i) = 1
    /\ Cardinality({ PausesBefore(pauses, i) : i \in of_c } \ {0}) <= 1

\* C36 as stated: in a full run no start-component transfer is issued before
\* the second operator pause has been resumed and set_temperature(50) has
\* completed, and every transfer of a non-start p300m component is issued
\* after the first pause and before the second pause; no component is
\* transferred in both phases.
C36_AsStated ==
    InReagentPhase =>
        \A pauses \in {IndicesOf("pause")}, heats \in {IndicesOf("set_temperature")},
           loads \in {IndicesOf("loading")}, transfers \in {TransferIndices} :
            \A c \in Components \cup {request.compound} :
                \A of_c \in {ReagentTransfers(transfers, loads, c)
                                \cup CurveTransfers(transfers, pauses, c)} :
                    InPhaseOf(pauses, heats, of_c, c)

\* C36: in a full run the additions of the components of the table keep to
\* their phases: no transfer of the addition of a start component is issued
\* before the second operator pause has been resumed and set_temperature(50)
\* has completed, every transfer of the addition of a non-start p300m
\* component is issued after the first pause and before the second pause,
\* and no component is added in both phases.  The standard-curve set-up is
\* no such addition: every transfer issued before the first component is
\* loaded is issued before the first pause, and among them the p20 and the
\* p300m draw the buffer of the curve, whatever the table says of it.
C36_StartComponentsAfterHeating ==
    InReagentPhase =>
        \A pauses \in {IndicesOf("pause")}, heats \in {IndicesOf("set_temperature")},
           loads \in {IndicesOf("loading")}, transfers \in {TransferIndices} :
            /\ \A c \in Components :
                   \A of_c \in {ReagentTransfers(transfers, loads, c)} :
                       InPhaseOf(pauses, heats, of_c, c)
            /\ \A i \in transfers :
                   (\A k \in loads : i < k) => PausesBefore(pauses, i) = 0
            /\ \A of_buffer \in
                     {CurveTransfers(transfers, pauses, request.buffer_compound)} :
                   \A p \in Pipettes : \E i \in of_buffer : events[i].pipette = p

\* a run to its end with the buffer, no start component, drawn by the p300m
\* for the standard curve before the first pause and added between the
\* pauses, and the enzyme, a start component, added after the heating
C36_Witness ==
    /\ InReagentPhase /\ pc = "end" /\ err = "none"
    /\ StartComponent("enzyme") /\ NonStartP300m("buffer")
    /\ \A pauses \in {IndicesOf("pause")}, loads \in {IndicesOf("loading")},
          transfers \in {TransferIndices} :
          /\ \E i \in CurveTransfers(transfers, pauses, "buffer") :
                 events[i].pipette = "p300m"
          /\ \E i \in ReagentTransfers(transfers, loads, "buffer") :
                 PausesBefore(pauses, i) = 1
          /\ \E j \in ReagentTransfers(transfers, loads, "enzyme") :
                 /\ PausesBefore(pauses, j) = 2
                 /\ HeatedBefore(pauses, IndicesOf("set_temperature"), j)

\* the volume the run has drawn from a reservoir well so far
DrawnFrom(w) == - liquid[w.plate][<<w.row, w.col>>]

\* C37: during buffer addition to the 7 deep-well dilution wells (8 channels
\* x 300 ul per transfer), the source advances to the next reservoir well
\* before the cumulative volume drawn from any single reservoir well would
\* exceed 10000 ul, and the two-well source iterator is never exhausted.
C37_BufferSourceAdvancesInTime ==
    (request.op = "run" /\ pc \in {"dilutions_made", "failed_dilutions"}) =>
        /\ err # "StopIteration"
        /\ \A i \in 1 .. Len(source_wells) : DrawnFrom(source_wells[i]) <= 10000
        /\ \A i, j \in 1 .. Len(events) :
              (/\ i < j
               /\ events[i].op = "aspirate" /\ events[j].op = "aspirate"
               /\ events[i].well.plate = "reservoir"
               /\ events[j].well.plate = "reservoir")
                  => events[i].well.col <= events[j].well.col

\* four transfers from the first source well, the other three from the second
C37_Witness ==
    /\ request.op = "run" /\ pc = "dilutions_made"
    /\ DrawnFrom(source_wells[1]) = 4 * 8 * buffer_volume
    /\ DrawnFrom(source_wells[2]) = 3 * 8 * buffer_volume
    /\ Cardinality({ i \in 1 .. Len(events) :
                       /\ events[i].op = "aspirate"
                       /\ events[i].well.plate = "reservoir"
                       /\ events[i].volume = buffer_volume }) = 7

\* C38: p20_std_curve completes its standard-curve setup for every dilutions
\* value accepted by its own precondition (dilutions > 1), including
\* dilutions = 2; in particular the serial dilution it starts over
\* stdcrv_wells[1:dilutions] runs to completion and leaves the p20 without a
\* tip.
C38_StandardCurveCompletes ==
    (request.op = "run" /\ pc \in {"pause_reagents", "failed_curves"}
        /\ request.dilutions > 1) =>
        /\ err = "none"
        /\ ~ tips["p20"].has_tip

====
